---------------------------- MODULE Spec2Model ----------------------------
(***************************************************************************)
(* discord-md: the markdown parser (src/src/parser), the AST (src/src/ast) *)
(* and the generator (src/src/generate).                                   *)
(*                                                                         *)
(* A Rust string is a sequence of one-character strings, so that slicing,  *)
(* concatenation and delimiter search are what the code does to the text.  *)
(* A MarkdownElementCollection is a sequence of elements; an element is a  *)
(* record tagged by the enum variant:                                      *)
(*   Plain, OneLineCode      [kind, content]            content: string    *)
(*   MultiLineCode           [kind, content, language]  language: Option   *)
(*   styled kinds, BlockQuote [kind, children]          children: sequence *)
(* Option<String> is <<>> for None and <<s>> for Some(s).                  *)
(***************************************************************************)
EXTENDS Naturals, Sequences, FiniteSets, TLC

VARIABLES msg, ast, prev_msg, prev_ast, ops, panicked, tried, last_option, text,
          setter_calls, frames

vars == <<msg, ast, prev_msg, prev_ast, ops, panicked, tried, last_option, text,
          setter_calls, frames>>

-----------------------------------------------------------------------------
(* Strings *)

Prefix(i, k) == SubSeq(i, 1, k)

Suffix(i, k) == SubSeq(i, k + 1, Len(i))

StartsWith(i, t) == Len(i) >= Len(t) /\ SubSeq(i, 1, Len(t)) = t

\* the backtick character (a string literal cannot hold one) and the line feed
BT == "backtick"

NL == "\n"

RECURSIVE Concat(_)
Concat(ss) == IF ss = <<>> THEN <<>> ELSE Head(ss) \o Concat(Tail(ss))

\* char::is_ascii_alphabetic / is_ascii_digit, as nom's alphanumeric1 tests them
AlphaNumeric ==
    { "a", "b", "c", "d", "e", "f", "g", "h", "i", "j", "k", "l", "m",
      "n", "o", "p", "q", "r", "s", "t", "u", "v", "w", "x", "y", "z",
      "A", "B", "C", "D", "E", "F", "G", "H", "I", "J", "K", "L", "M",
      "N", "O", "P", "Q", "R", "S", "T", "U", "V", "W", "X", "Y", "Z",
      "0", "1", "2", "3", "4", "5", "6", "7", "8", "9" }

-----------------------------------------------------------------------------
(* AST constructors (src/src/ast.rs) *)

Plain_new(content) == [kind |-> "Plain", content |-> content]

OneLineCode_new(content) == [kind |-> "OneLineCode", content |-> content]

MultiLineCode_new(content, language) ==
    [kind |-> "MultiLineCode", content |-> content, language |-> language]

Styled_new(kind, children) == [kind |-> kind, children |-> children]

BlockQuote_new(children) == [kind |-> "BlockQuote", children |-> children]

StyledKinds ==
    { "ItalicsStar", "ItalicsUnderscore", "Bold", "Underline",
      "Strikethrough", "Spoiler" }

\* the delimiter each matcher and each renderer uses
Delimiter(kind) ==
    CASE kind = "ItalicsStar"       -> <<"*">>
      [] kind = "ItalicsUnderscore" -> <<"_">>
      [] kind = "Bold"              -> <<"*", "*">>
      [] kind = "Underline"         -> <<"_", "_">>
      [] kind = "Strikethrough"     -> <<"~", "~">>
      [] kind = "Spoiler"           -> <<"|", "|">>
      [] kind = "OneLineCode"       -> <<BT>>
      [] kind = "MultiLineCode"     -> <<BT, BT, BT>>

-----------------------------------------------------------------------------
(* nom.  A parser handed to a combinator is a value: the expression the    *)
(* source writes, as a tuple headed by the combinator's name, or the name  *)
(* of one of the parser functions.  Run applies a parser to an input and   *)
(* gives nom's IResult: Ok((rest, value)) or                               *)
(* Err(Err::Error(Error::new(input, kind))).                               *)

tag(t) == <<"tag", t>>

rest == <<"rest">>

take_while1_true == <<"take_while1_true">>

alphanumeric1 == <<"alphanumeric1">>

newline == <<"newline">>

peek(f) == <<"peek", f>>

recognize_many_till_anychar_peek(f) == <<"recognize_many_till_anychar_peek", f>>

verify_non_empty(f) == <<"verify_non_empty", f>>

delimited(f, g, h) == <<"delimited", f, g, h>>

map_parser(f, g) == <<"map_parser", f, g>>

map(f, fn) == <<"map", f, fn>>

alt(fs) == <<"alt", fs>>

opt(f) == <<"opt", f>>

terminated(f, g) == <<"terminated", f, g>>

pair(f, g) == <<"pair", f, g>>

many0(f) == <<"many0", f>>

\* one of the parser functions of mod.rs, by name
call(name) == <<name>>

Ok(i, val) == [ok |-> TRUE, rest |-> i, val |-> val, err |-> "None"]

Err(i, kind) == [ok |-> FALSE, rest |-> i, val |-> <<>>, err |-> kind]

\* the functions and closures handed to map
Apply(fn, v) ==
    CASE fn = "Plain::new"             -> Plain_new(v)
      [] fn = "ItalicsStar::new"       -> Styled_new("ItalicsStar", v)
      [] fn = "ItalicsUnderscore::new" -> Styled_new("ItalicsUnderscore", v)
      [] fn = "Bold::new"              -> Styled_new("Bold", v)
      [] fn = "Underline::new"         -> Styled_new("Underline", v)
      [] fn = "Strikethrough::new"     -> Styled_new("Strikethrough", v)
      [] fn = "Spoiler::new"           -> Styled_new("Spoiler", v)
      [] fn = "OneLineCode::new"       -> OneLineCode_new(v)
      [] fn = "|(lang, content)| MultiLineCode::new(content, lang)"
                                       -> MultiLineCode_new(v[2], v[1])
      [] fn = "MarkdownElement::from"  -> v
      [] fn = "MarkdownElementCollection::from" -> v
      [] fn = "MarkdownDocument::new"  -> v

\* the longest alphanumeric prefix of i
RECURSIVE AlphaRun(_)
AlphaRun(i) ==
    IF i # <<>> /\ Head(i) \in AlphaNumeric THEN 1 + AlphaRun(Tail(i)) ELSE 0

RECURSIVE Run(_, _), RunTakeBefore(_, _), RunAlt(_, _), RunMany0(_, _, _),
          RunMap(_, _, _), RunMapParser(_, _, _)
RECURSIVE markdown_element_collection(_), markdown_element(_),
          markdown_element_plain(_), markdown_element_not_plain(_), plain(_),
          italics_star(_), italics_underscore(_), bold(_), underline(_),
          styled(_, _, _), strikethrough(_), spoiler(_), one_line_code(_),
          multi_line_code(_)

\* a take_before that runs to the last position where f succeeds
RunTakeBefore_Longest(f, i) ==
    LET hits == {k \in 0..Len(i) : Run(f, Suffix(i, k)).ok}
        last == CHOOSE k \in hits : \A j \in hits : j <= k
    IN  IF hits = {} THEN Err(<<>>, "Eof")
        ELSE Ok(Suffix(i, last), Prefix(i, last))

\* a take_before that gives all the input when f succeeds nowhere
RunTakeBefore_ToEnd(f, i) ==
    LET hits == {k \in 0..Len(i) : Run(f, Suffix(i, k)).ok}
        first == CHOOSE k \in hits : \A j \in hits : k <= j
    IN  IF hits = {} THEN Ok(<<>>, i)
        ELSE Ok(Suffix(i, first), Prefix(i, first))

\* recognize(many_till(anychar, peek(f))): many_till tries peek(f) first and,
\* when it fails, steps over one character with anychar; so the loop ends at
\* the first position where f succeeds, and recognize gives the input in
\* front of it.  When f succeeds nowhere anychar fails at the end of input.
RunTakeBefore(f, i) ==
    LET n == Len(i)
        k == CHOOSE k \in 0..(n + 1) :
                 /\ k = n + 1 \/ Run(f, Suffix(i, k)).ok
                 /\ \A j \in 0..(k - 1) : ~Run(f, Suffix(i, j)).ok
    IN  IF k = n + 1 THEN Err(<<>>, "Eof") ELSE Ok(Suffix(i, k), Prefix(i, k))

\* alt((f1, .., fn)), n <= 8: the first alternative that succeeds, else the
\* error of the last one
RunAlt(fs, i) ==
    LET n  == Len(fs)
        r1 == Run(fs[1], i)
        r2 == Run(fs[2], i)
        r3 == Run(fs[3], i)
        r4 == Run(fs[4], i)
        r5 == Run(fs[5], i)
        r6 == Run(fs[6], i)
        r7 == Run(fs[7], i)
        r8 == Run(fs[8], i)
        r14 == IF r1.ok \/ n = 1 THEN r1
               ELSE IF r2.ok \/ n = 2 THEN r2
               ELSE IF r3.ok \/ n = 3 THEN r3
               ELSE r4
    IN  IF r14.ok \/ n <= 4 THEN r14
        ELSE IF r5.ok \/ n = 5 THEN r5
        ELSE IF r6.ok \/ n = 6 THEN r6
        ELSE IF r7.ok \/ n = 7 THEN r7
        ELSE r8

\* many0(f): collects until f fails; an f that consumes nothing is an error
RunMany0(f, i, acc) ==
    LET r == Run(f, i)
    IN  IF r.ok
        THEN IF Len(r.rest) = Len(i) THEN Err(i, "Many0")
             ELSE RunMany0(f, r.rest, Append(acc, r.val))
        ELSE Ok(i, acc)

\* map(f, fn)
RunMap(f, fn, i) ==
    LET r == Run(f, i)
    IN  IF r.ok THEN Ok(r.rest, Apply(fn, r.val)) ELSE r

\* map_parser(f, g): g runs on what f gives, and what g leaves is dropped
RunMapParser(f, g, i) ==
    LET a == Run(f, i)
        b == Run(g, a.val)
    IN  IF a.ok THEN IF b.ok THEN Ok(a.rest, b.val) ELSE b
        ELSE a

Run(p, i) ==
    CASE p[1] = "tag" ->
            IF StartsWith(i, p[2]) THEN Ok(Suffix(i, Len(p[2])), p[2])
            ELSE Err(i, "Tag")
      [] p[1] = "markdown_element" -> markdown_element(i)
      [] p[1] = "markdown_element_not_plain" -> markdown_element_not_plain(i)
      [] p[1] = "markdown_element_collection" -> markdown_element_collection(i)
      [] p[1] = "markdown_element_plain" -> markdown_element_plain(i)
      [] p[1] = "plain" -> plain(i)
      [] p[1] = "italics_star" -> italics_star(i)
      [] p[1] = "italics_underscore" -> italics_underscore(i)
      [] p[1] = "bold" -> bold(i)
      [] p[1] = "underline" -> underline(i)
      [] p[1] = "strikethrough" -> strikethrough(i)
      [] p[1] = "spoiler" -> spoiler(i)
      [] p[1] = "one_line_code" -> one_line_code(i)
      [] p[1] = "multi_line_code" -> multi_line_code(i)
      [] p[1] = "map" -> RunMap(p[2], p[3], i)
      [] p[1] = "alt" -> RunAlt(p[2], i)
      [] p[1] = "map_parser" -> RunMapParser(p[2], p[3], i)
      [] p[1] = "many0" -> RunMany0(p[2], i, <<>>)
      [] p[1] = "recognize_many_till_anychar_peek" -> RunTakeBefore(p[2], i)
      [] p[1] = "delimited" ->
            LET a == Run(p[2], i)
                b == Run(p[3], a.rest)
                c == Run(p[4], b.rest)
            IN  IF ~a.ok THEN a
                ELSE IF ~b.ok THEN b
                ELSE IF ~c.ok THEN c
                ELSE Ok(c.rest, b.val)
      [] p[1] = "verify_non_empty" ->
            LET r == Run(p[2], i)
            IN  IF r.ok /\ Len(r.val) = 0 THEN Err(i, "Verify") ELSE r
      [] p[1] = "peek" ->
            LET r == Run(p[2], i) IN IF r.ok THEN Ok(i, r.val) ELSE r
      [] p[1] = "take_while1_true" ->
            IF i = <<>> THEN Err(i, "TakeWhile1") ELSE Ok(<<>>, i)
      [] p[1] = "pair" ->
            LET a == Run(p[2], i)
                b == Run(p[3], a.rest)
            IN  IF ~a.ok THEN a
                ELSE IF ~b.ok THEN b
                ELSE Ok(b.rest, <<a.val, b.val>>)
      [] p[1] = "opt" ->
            LET r == Run(p[2], i)
            IN  IF r.ok THEN Ok(r.rest, <<r.val>>) ELSE Ok(i, <<>>)
      [] p[1] = "terminated" ->
            LET a == Run(p[2], i)
                b == Run(p[3], a.rest)
            IN  IF ~a.ok THEN a
                ELSE IF ~b.ok THEN b
                ELSE Ok(b.rest, a.val)
      [] p[1] = "alphanumeric1" ->
            IF AlphaRun(i) = 0 THEN Err(i, "AlphaNumeric")
            ELSE Ok(Suffix(i, AlphaRun(i)), Prefix(i, AlphaRun(i)))
      [] p[1] = "newline" ->
            IF i # <<>> /\ Head(i) = NL THEN Ok(Tail(i), NL) ELSE Err(i, "Char")
      [] p[1] = "rest" -> Ok(<<>>, i)

-----------------------------------------------------------------------------
(* Useful parsers (src/src/parser/util.rs) *)

\* a rest1 that also accepts the empty input, as nom's rest does
rest1_AcceptsEmpty == rest

rest1 == take_while1_true

take_before0(f) == recognize_many_till_anychar_peek(f)

take_before1(f) == verify_non_empty(take_before0(f))

-----------------------------------------------------------------------------
(* The parser (src/src/parser/mod.rs).  parser(i) is the function applied  *)
(* to the input i.  MarkdownElement::from, MarkdownElementCollection::from  *)
(* and MarkdownDocument::new wrap a value without changing it.             *)

\* map(many0(markdown_element), MarkdownElementCollection::from)
markdown_element_collection(i) == RunMany0(call("markdown_element"), i, <<>>)

\* map(markdown_element_collection, MarkdownDocument::new)
markdown_document(i) == markdown_element_collection(i)

\* alt((markdown_element_not_plain, markdown_element_plain))
\* a parser that reads a line behind "> " as a block quote
markdown_element_ParsesBlockQuote(i) ==
    IF StartsWith(i, <<">", " ">>)
    THEN LET r == markdown_element_collection(Suffix(i, 2))
         IN  Ok(r.rest, BlockQuote_new(r.val))
    ELSE LET r == markdown_element_not_plain(i)
         IN  IF r.ok THEN r ELSE markdown_element_plain(i)

\* a parser that reads a backslash and the character behind it as that
\* character in plain text
markdown_element_Escapes(i) ==
    IF Len(i) >= 2 /\ Head(i) = "\\"
    THEN Ok(Suffix(i, 2), Plain_new(<<i[2]>>))
    ELSE LET r == markdown_element_not_plain(i)
         IN  IF r.ok THEN r ELSE markdown_element_plain(i)

\* an alternation that tries the plain text first
markdown_element_PlainFirst(i) ==
    LET r == markdown_element_plain(i)
    IN  IF r.ok THEN r ELSE markdown_element_not_plain(i)

markdown_element(i) ==
    LET r == markdown_element_not_plain(i)
    IN  IF r.ok THEN r ELSE markdown_element_plain(i)

\* a plain element that ends with its line
markdown_element_plain_PerLine(i) ==
    LET r == plain(i)
        feeds == IF r.ok
                 THEN {k \in 1..(Len(r.val.content) - 1) : r.val.content[k] = NL}
                 ELSE {}
        n == CHOOSE k \in feeds : \A j \in feeds : k <= j
    IN  IF feeds = {} THEN r ELSE Ok(Suffix(i, n), Plain_new(Prefix(i, n)))

\* map(plain, MarkdownElement::from)
markdown_element_plain(i) == plain(i)

\* the alternatives with the double-character matchers moved in front of the
\* single-character ones
markdown_element_not_plain_alt_DoubleFirst ==
    << call("multi_line_code"), call("one_line_code"), call("bold"),
       call("underline"), call("italics_star"), call("italics_underscore"),
       call("strikethrough"), call("spoiler") >>

\* the alternatives of markdown_element_not_plain, first to last
markdown_element_not_plain_alt ==
    << call("multi_line_code"), call("one_line_code"), call("italics_star"),
       call("italics_underscore"), call("bold"), call("underline"),
       call("strikethrough"), call("spoiler") >>

markdown_element_not_plain(i) == RunAlt(markdown_element_not_plain_alt, i)

\* a plain that takes one character at a time
plain_OneCharacter(i) ==
    IF i = <<>> THEN Err(i, "Eof") ELSE Ok(Tail(i), Plain_new(<<Head(i)>>))

\* a plain that takes all the input that is left
plain_TakesRest(i) == RunMap(rest1, "Plain::new", i)

\* map(alt((take_before0(markdown_element_not_plain), rest1)), Plain::new)
plain(i) ==
    LET r == Run(take_before0(call("markdown_element_not_plain")), i)
    IN  IF r.ok THEN Ok(r.rest, Plain_new(r.val))
        ELSE RunMap(rest1, "Plain::new", i)

\* a styled matcher that takes an empty span as well
styled_AcceptsEmptySpan(d, new, i) ==
    LET a == Run(delimited(tag(d), take_before0(tag(d)), tag(d)), i)
        b == markdown_element_collection(a.val)
    IN  IF a.ok THEN IF b.ok THEN Ok(a.rest, Apply(new, b.val)) ELSE b
        ELSE a

\* map(map_parser(delimited(tag(d), take_before1(tag(d)), tag(d)),
\*                markdown_element_collection), new)
\* for the delimiter d and the constructor new of one style
styled(d, new, i) ==
    LET a == Run(delimited(tag(d), take_before1(tag(d)), tag(d)), i)
        b == markdown_element_collection(a.val)
    IN  IF a.ok THEN IF b.ok THEN Ok(a.rest, Apply(new, b.val)) ELSE b
        ELSE a

\* an italics that may be empty: the first two of three stars are a span
italics_star_AcceptsEmptySpan(i) ==
    styled_AcceptsEmptySpan(<<"*">>, "ItalicsStar::new", i)

italics_star(i) == styled(<<"*">>, "ItalicsStar::new", i)

\* an italics_underscore that builds the element of italics_star
italics_underscore_AsStar(i) == styled(<<"_">>, "ItalicsStar::new", i)

\* an italics whose closing underscore must not be followed by a letter or
\* a digit
italics_underscore_WordBoundary(i) ==
    LET r == styled(<<"_">>, "ItalicsUnderscore::new", i)
    IN  IF r.ok /\ r.rest # <<>> /\ Head(r.rest) \in AlphaNumeric
        THEN Err(i, "Verify") ELSE r

italics_underscore(i) == styled(<<"_">>, "ItalicsUnderscore::new", i)

bold(i) == styled(<<"*", "*">>, "Bold::new", i)

underline(i) == styled(<<"_", "_">>, "Underline::new", i)

strikethrough(i) == styled(<<"~", "~">>, "Strikethrough::new", i)

spoiler(i) == styled(<<"|", "|">>, "Spoiler::new", i)

\* a one_line_code that parses its span as the styled matchers do
one_line_code_ParsesSpan(i) ==
    LET r == styled(<<BT>>, "MarkdownElementCollection::from", i)
    IN  IF r.ok THEN Ok(r.rest, [kind |-> "OneLineCode", children |-> r.val])
        ELSE r

one_line_code(i) ==
    RunMap(delimited(tag(<<BT>>), take_before1(tag(<<BT>>)), tag(<<BT>>)),
           "OneLineCode::new", i)

\* a multi_line_code that takes an alphanumeric run as the language whatever
\* follows it
multi_line_code_NoPeek(i) ==
    RunMap(map_parser(delimited(tag(<<BT, BT, BT>>), take_before1(tag(<<BT, BT, BT>>)),
                                tag(<<BT, BT, BT>>)),
                      pair(opt(alphanumeric1), rest)),
           "|(lang, content)| MultiLineCode::new(content, lang)", i)

\* a multi_line_code that consumes the line feed behind the language
multi_line_code_EatsNewline(i) ==
    RunMap(map_parser(delimited(tag(<<BT, BT, BT>>), take_before1(tag(<<BT, BT, BT>>)),
                                tag(<<BT, BT, BT>>)),
                      pair(opt(terminated(alphanumeric1, newline)), rest)),
           "|(lang, content)| MultiLineCode::new(content, lang)", i)

multi_line_code(i) ==
    RunMap(map_parser(delimited(tag(<<BT, BT, BT>>), take_before1(tag(<<BT, BT, BT>>)),
                                tag(<<BT, BT, BT>>)),
                      pair(opt(terminated(alphanumeric1, peek(newline))), rest)),
           "|(lang, content)| MultiLineCode::new(content, lang)", i)

-----------------------------------------------------------------------------
(* lib.rs *)

\* let (rest, doc) = parser::markdown_document(msg).unwrap();
\* assert!(rest.is_empty());
\* The outcome is the document, or a panic of unwrap or of the assertion.
parse(m) ==
    LET r == markdown_document(m)
    IN  IF ~r.ok THEN [panic |-> "unwrap", doc |-> <<>>]
        ELSE IF r.rest # <<>> THEN [panic |-> "assert", doc |-> <<>>]
        ELSE [panic |-> "none", doc |-> r.val]

-----------------------------------------------------------------------------
(* The generator (src/src/generate.rs) *)

ToMarkdownStringOption_new == [omit_format |-> FALSE, omit_spoiler |-> FALSE]

\* a setter that also puts the other flag back to its default
omit_format_ResetsSpoiler(option, value) ==
    [omit_format |-> value, omit_spoiler |-> FALSE]

omit_format(option, value) == [option EXCEPT !.omit_format = value]

omit_spoiler(option, value) == [option EXCEPT !.omit_spoiler = value]

\* str::split('\n'): the pieces between line feeds, one more than the line feeds
RECURSIVE split(_, _)
split(content, piece) ==
    IF content = <<>> THEN <<piece>>
    ELSE IF Head(content) = NL THEN <<piece>> \o split(Tail(content), <<>>)
    ELSE split(Tail(content), Append(piece, Head(content)))

\* slice::join("\n")
RECURSIVE join(_)
join(lines) ==
    IF Len(lines) = 1 THEN lines[1]
    ELSE lines[1] \o <<NL>> \o join(Tail(lines))

RECURSIVE Collection_to_markdown_string(_, _)

Plain_to_markdown_string(x, option) == x.content

ItalicsStar_to_markdown_string(x, option) ==
    LET content == Collection_to_markdown_string(x.children, option)
    IN  IF option.omit_format THEN content ELSE <<"*">> \o content \o <<"*">>

\* an italics that is always written with stars
ItalicsUnderscore_to_markdown_string_AsStar(x, option) ==
    LET content == Collection_to_markdown_string(x.children, option)
    IN  IF option.omit_format THEN content ELSE <<"*">> \o content \o <<"*">>

ItalicsUnderscore_to_markdown_string(x, option) ==
    LET content == Collection_to_markdown_string(x.children, option)
    IN  IF option.omit_format THEN content ELSE <<"_">> \o content \o <<"_">>

Bold_to_markdown_string(x, option) ==
    LET content == Collection_to_markdown_string(x.children, option)
    IN  IF option.omit_format THEN content
        ELSE <<"*", "*">> \o content \o <<"*", "*">>

\* an underline rendered with the delimiter of italics
Underline_to_markdown_string_OneUnderscore(x, option) ==
    LET content == Collection_to_markdown_string(x.children, option)
    IN  IF option.omit_format THEN content ELSE <<"_">> \o content \o <<"_">>

Underline_to_markdown_string(x, option) ==
    LET content == Collection_to_markdown_string(x.children, option)
    IN  IF option.omit_format THEN content
        ELSE <<"_", "_">> \o content \o <<"_", "_">>

Strikethrough_to_markdown_string(x, option) ==
    LET content == Collection_to_markdown_string(x.children, option)
    IN  IF option.omit_format THEN content
        ELSE <<"~", "~">> \o content \o <<"~", "~">>

\* a spoiler that looks at omit_format first
Spoiler_to_markdown_string_FormatFirst(x, option) ==
    LET content == Collection_to_markdown_string(x.children, option)
    IN  IF option.omit_format THEN content
        ELSE IF option.omit_spoiler THEN <<>>
        ELSE <<"|", "|">> \o content \o <<"|", "|">>

Spoiler_to_markdown_string(x, option) ==
    LET content == Collection_to_markdown_string(x.children, option)
    IN  IF option.omit_spoiler THEN <<>>
        ELSE IF option.omit_format THEN content
        ELSE <<"|", "|">> \o content \o <<"|", "|">>

OneLineCode_to_markdown_string(x, option) ==
    IF option.omit_format THEN x.content ELSE <<BT>> \o x.content \o <<BT>>

\* a code block that keeps its language when the format is omitted
MultiLineCode_to_markdown_string_KeepsLanguage(x, option) ==
    IF option.omit_format THEN Concat(x.language) \o x.content
    ELSE <<BT, BT, BT>> \o Concat(x.language) \o x.content \o <<BT, BT, BT>>

\* format!("```{}{}```", self.language().unwrap_or(""), content)
MultiLineCode_to_markdown_string(x, option) ==
    IF option.omit_format THEN x.content
    ELSE <<BT, BT, BT>> \o Concat(x.language) \o x.content \o <<BT, BT, BT>>

\* a block quote with the prefix in front of its first line only
BlockQuote_to_markdown_string_FirstLineOnly(x, option) ==
    LET content == Collection_to_markdown_string(x.children, option)
    IN  IF option.omit_format THEN content ELSE <<">", " ">> \o content

BlockQuote_to_markdown_string(x, option) ==
    LET content == Collection_to_markdown_string(x.children, option)
    IN  IF option.omit_format THEN content
        ELSE join([n \in 1..Len(split(content, <<>>)) |->
                      <<">", " ">> \o split(content, <<>>)[n]])

Element_to_markdown_string(e, option) ==
    CASE e.kind = "Plain"             -> Plain_to_markdown_string(e, option)
      [] e.kind = "ItalicsStar"       -> ItalicsStar_to_markdown_string(e, option)
      [] e.kind = "ItalicsUnderscore" -> ItalicsUnderscore_to_markdown_string(e, option)
      [] e.kind = "Bold"              -> Bold_to_markdown_string(e, option)
      [] e.kind = "Underline"         -> Underline_to_markdown_string(e, option)
      [] e.kind = "Strikethrough"     -> Strikethrough_to_markdown_string(e, option)
      [] e.kind = "Spoiler"           -> Spoiler_to_markdown_string(e, option)
      [] e.kind = "OneLineCode"       -> OneLineCode_to_markdown_string(e, option)
      [] e.kind = "MultiLineCode"     -> MultiLineCode_to_markdown_string(e, option)
      [] e.kind = "BlockQuote"        -> BlockQuote_to_markdown_string(e, option)

\* a collection rendered from its last element to its first
Collection_to_markdown_string_Reversed(c, option) ==
    IF c = <<>> THEN <<>>
    ELSE Collection_to_markdown_string(Tail(c), option)
             \o Element_to_markdown_string(Head(c), option)

\* self.get().iter().map(|c| c.to_markdown_string(option)).collect::<String>()
Collection_to_markdown_string(c, option) ==
    IF c = <<>> THEN <<>>
    ELSE Element_to_markdown_string(Head(c), option)
             \o Collection_to_markdown_string(Tail(c), option)

Document_to_markdown_string(doc, option) ==
    Collection_to_markdown_string(doc, option)

-----------------------------------------------------------------------------
(* Plain text and Display (src/src/ast.rs) *)

RECURSIVE MarkdownElementCollection_to_plain_string(_)

\* plain text in which a language tag is kept in front of the code
MarkdownElement_to_plain_string_KeepsLanguage(e) ==
    CASE e.kind \in {"Plain", "OneLineCode"} -> e.content
      [] e.kind = "MultiLineCode" -> Concat(e.language) \o e.content
      [] OTHER -> MarkdownElementCollection_to_plain_string(e.children)

\* match self { Plain(x) => x.content().to_string(),
\*              ItalicsStar(x) => x.to_plain_text(), ..,
\*              OneLineCode(x) | MultiLineCode(x) => x.content().to_string(),
\*              BlockQuote(x) => x.to_plain_text() }
\* where to_plain_text is self.content.to_plain_string() in every struct
MarkdownElement_to_plain_string(e) ==
    CASE e.kind = "Plain"         -> e.content
      [] e.kind = "OneLineCode"   -> e.content
      [] e.kind = "MultiLineCode" -> e.content
      [] OTHER -> MarkdownElementCollection_to_plain_string(e.children)

\* self.0.iter().map(|c| c.to_plain_string()).collect::<String>()
MarkdownElementCollection_to_plain_string(c) ==
    IF c = <<>> THEN <<>>
    ELSE MarkdownElement_to_plain_string(Head(c))
             \o MarkdownElementCollection_to_plain_string(Tail(c))

MarkdownDocument_to_plain_text(doc) == MarkdownElementCollection_to_plain_string(doc)

RECURSIVE MarkdownElementCollection_fmt(_)

\* a code block displayed without its language
MultiLineCode_fmt_NoLanguage(x) == <<BT, BT, BT>> \o x.content \o <<BT, BT, BT>>

\* #[display(fmt = "```{}{}```", r#"language.as_deref().unwrap_or("")"#, content)]
MultiLineCode_fmt(x) ==
    <<BT, BT, BT>> \o Concat(x.language) \o x.content \o <<BT, BT, BT>>

\* self.content.to_string().split('\n').map(|line| format!("> {}", line))
\*     .collect::<Vec<_>>().join("\n")
BlockQuote_fmt(x) ==
    LET lines == split(MarkdownElementCollection_fmt(x.children), <<>>)
    IN  join([n \in 1..Len(lines) |-> <<">", " ">> \o lines[n]])

\* #[derive(Display)] of the enum hands over to the variant, and each
\* struct has its #[display(fmt = ..)]; Plain displays its only field
MarkdownElement_fmt(e) ==
    CASE e.kind = "Plain" -> e.content
      [] e.kind = "ItalicsStar" ->
            <<"*">> \o MarkdownElementCollection_fmt(e.children) \o <<"*">>
      [] e.kind = "ItalicsUnderscore" ->
            <<"_">> \o MarkdownElementCollection_fmt(e.children) \o <<"_">>
      [] e.kind = "Bold" ->
            <<"*", "*">> \o MarkdownElementCollection_fmt(e.children) \o <<"*", "*">>
      [] e.kind = "Underline" ->
            <<"_", "_">> \o MarkdownElementCollection_fmt(e.children) \o <<"_", "_">>
      [] e.kind = "Strikethrough" ->
            <<"~", "~">> \o MarkdownElementCollection_fmt(e.children) \o <<"~", "~">>
      [] e.kind = "Spoiler" ->
            <<"|", "|">> \o MarkdownElementCollection_fmt(e.children) \o <<"|", "|">>
      [] e.kind = "OneLineCode"   -> <<BT>> \o e.content \o <<BT>>
      [] e.kind = "MultiLineCode" -> MultiLineCode_fmt(e)
      [] e.kind = "BlockQuote"    -> BlockQuote_fmt(e)

\* write!(f, "{}", self.0.iter().map(|c| c.to_string()).collect::<String>())
MarkdownElementCollection_fmt(c) ==
    IF c = <<>> THEN <<>>
    ELSE MarkdownElement_fmt(Head(c)) \o MarkdownElementCollection_fmt(Tail(c))

\* #[derive(Display)] on a struct with one field displays the field
MarkdownDocument_fmt(doc) == MarkdownElementCollection_fmt(doc)

-----------------------------------------------------------------------------
(* Bounds and inputs *)

\* longest message drawn from Alphabet
MaxLen == 3

\* most nodes of a document put together with the builder
MaxNodes == 2

\* the most setter calls on one options value
MaxSetters == 3

\* the longest message whose parse is followed step by step
MaxStepLen == 10

\* a delimiter character of each shape (single or double, double only, code),
\* one alphanumeric character and the line feed
Alphabet == {"*", "_", "|", BT, "a", NL}

Strings(n) == UNION {[1..k -> Alphabet] : k \in 0..n}

\* messages of the tests and of the documentation
SampleMessages ==
    {
      \* src/src/parser/mod.rs:258
      <<"*", "*", "t", "e", "x", "t">>,
      \* src/src/parser/mod.rs:262
      <<"t", "e", "x", "t", "_", "_">>,
      \* src/src/parser/mod.rs:374
      <<"*", "*">>,
      \* src/src/parser/mod.rs:422
      <<"*", "*", "*", "*">>,
      \* src/src/parser/mod.rs:445
      <<"_", "_", "_", "_">>,
      \* src/src/parser/mod.rs:475
      <<"~", "~", "~", "~">>,
      \* src/src/parser/mod.rs:500
      <<"|", "|", "|", "|">>,
      \* src/src/parser/mod.rs:526
      <<BT, BT>>,
      \* src/src/parser/mod.rs:566
      <<BT, BT, BT, BT, BT, BT>>,
      \* src/src/parser/mod.rs:276
      <<"*", "*", "t", "e", "x", "t", "*", "*">>,
      \* src/src/parser/mod.rs:284
      <<"~", "~", "t", "e", "x", "t", "~", "~">>,
      \* src/src/parser/mod.rs:288
      <<"|", "|", "t", "e", "x", "t", "|", "|">>,
      \* src/src/parser/mod.rs:169
      <<"*", "*", "h", "e", "l", "l", "o", " ", "_", "w", "o", "r", "l", "d", "_",
         "*", "*">>,
      \* src/src/parser/mod.rs:235
      <<BT, "_", "_", "h", "e", "l", "l", "o", "_", "_", BT, " ", "|", "|", "w",
         "o", "r", "l", "d", "|", "|">>,
      \* src/src/parser/mod.rs:309
      <<"h", "e", "l", "l", "o", "*", "*", "w", "o", "r", "l", "d", "*", "*">>,
      \* src/src/parser/mod.rs:546
      <<BT, BT, BT, NL, "h", "e", "l", "l", "o", NL, BT, BT, BT, "w", "o", "r", "l",
         "d">>,
      \* src/src/parser/mod.rs:538
      <<BT, BT, BT, "h", "e", "l", "l", "o", " ", "w", "o", "r", "l", "d", BT, BT,
         BT>>,
      \* src/src/parser/mod.rs:542
      <<BT, BT, BT, " ", "h", "e", "l", "l", "o", NL, "w", "o", "r", "l", "d", BT,
         BT, BT>>,
      \* src/src/parser/mod.rs:581
      <<BT, BT, BT, "x", "8", "6", "a", "s", "m", NL, "h", "e", "l", "l", "o", BT,
         BT, BT>>,
      \* src/src/lib.rs:213
      <<"*", "i", "t", "a", "l", "i", "c", "s", "*", ",", " ", "|", "|", "s", "p",
         "o", "i", "l", "e", "r", "s", "|", "|", ",", " ", BT, "*", "i", "n",
         "l", "i", "n", "e", " ", "c", "o", "d", "e", "*", BT>>,
      \* src/src/lib.rs:232
      <<"_", "_", "*", "n", "e", "s", "t", "e", "d", "*", " ", "s", "t", "y", "l",
         "e", "s", "_", "_", " ", "s", "u", "p", "p", "o", "r", "t", "e",
         "d">>,
      \* src/src/parser/mod.rs:182
      <<"*", "*", "*", "i", "t", "a", "l", "i", "c", "s", "*", " ", "i", "n",
        " ", "b", "o", "l", "d", "*", "*">>,
      \* src/src/parser/mod.rs:181
      <<"*", "*", "*", "b", "o", "l", "d", "*", "*", " ", "i", "n", " ", "i",
        "t", "a", "l", "i", "c", "s", "*">>,
      \* src/src/parser/mod.rs:194
      <<"_", "_", "_", "i", "t", "a", "l", "i", "c", "s", "_", " ", "i", "n",
        " ", "u", "n", "d", "e", "r", "l", "i", "n", "e", "_", "_">>,
      \* src/src/parser/mod.rs:193
      <<"_", "_", "_", "u", "n", "d", "e", "r", "l", "i", "n", "e", "_", "_",
        " ", "i", "n", " ", "i", "t", "a", "l", "i", "c", "s", "_">>,
      \* src/src/lib.rs:146
      <<"f", "o", "o", "_", "b", "a", "r", "_", "b", "a", "z">>,
      \* a bold and an underline inside a word
      <<"a", "*", "*", "b", "*", "*", "c">>,
      <<"a", "_", "_", "b", "_", "_", "c">>,
      \* a language tag
      <<BT, BT, BT, "j", "s", NL, "f", "o", "o", NL, BT, BT, BT>>,
      \* no line feed behind the alphanumeric run
      <<BT, BT, BT, "f", "o", "o", BT, BT, BT>>,
      \* two closing delimiters
      <<"*", "*", "a", "*", "*", "b", "*", "*">>,
      \* an emphasis opened in front of a code span
      <<"*", "a", " ", BT, "*", BT, " ", "b", "*">>,
      \* src/src/parser/mod.rs:344
      <<"t", "e", "x", "t", " ", "*", "i", "t", "a", "l", "i", "c", "s", "*">>,
      \* src/src/parser/mod.rs:329
      <<"_", "_", "*", "t", "e", "x", "t", "*", "_", "_">>,
      \* src/src/parser/mod.rs:254
      <<"t", "e", "x", "t">>,
      \* the six styles, one in the other
      <<"*", "*", "_", "_", "~", "~", "|", "|", "*", "_", "a", "_", "*", "|",
        "|", "~", "~", "_", "_", "*", "*">>,
      \* and a bold once more inside them
      <<"*", "*", "_", "_", "~", "~", "|", "|", "*", "_", "*", "*", "a", "*",
        "*", "_", "*", "|", "|", "~", "~", "_", "_", "*", "*">>
    }

\* messages that open with a code fence: a span of up to MaxLen - 1
\* characters between two fences, with or without text behind
FencedMessages ==
    { <<BT, BT, BT>> \o s \o <<BT, BT, BT>> \o t :
          s \in Strings(MaxLen - 1), t \in {<<>>, <<"a">>} }

\* longer messages with one delimiter character: up to MaxLen + 3 characters,
\* each the character c or a letter
OneDelimiterMessages(c) == UNION {[1..k -> {c, "a"}] : k \in 0..(MaxLen + 3)}

\* messages that open like a block quote: "> " and up to MaxLen - 1
\* characters, and two quoted lines
QuotedMessages ==
    { <<">", " ">> \o s : s \in Strings(MaxLen - 1) }
        \cup { <<">", " ", "a", NL, ">", " ", "*", "b", "*">> }

\* messages that open with a backslash: up to MaxLen - 1 characters behind
\* it, and an italics behind it
EscapedMessages ==
    { <<"\\">> \o s : s \in Strings(MaxLen - 1) }
        \cup { <<"\\", "*", "a", "*">> }

Messages ==
    Strings(MaxLen) \cup FencedMessages \cup OneDelimiterMessages("*")
        \cup OneDelimiterMessages("_") \cup SampleMessages \cup QuotedMessages
        \cup EscapedMessages

\* leaves handed to the builder: plain(..), one_line_code(..), multi_line_code(..)
Leaves ==
    { Plain_new(<<"a">>), Plain_new(<<"*">>), Plain_new(<<>>),
      OneLineCode_new(<<"*">>),
      MultiLineCode_new(<<NL>>, <<<<"a">>>>),
      MultiLineCode_new(<<"a">>, <<<<"a">>>>),
      MultiLineCode_new(<<"a", NL>>, <<>>) }

\* documents of the tests and of the documentation, built in one go with
\* MarkdownDocument::new(vec![..])
\* src/tests/generate_then_parse.rs:8
GenerateThenParseDocument ==
    << Styled_new("ItalicsStar", <<Plain_new(<<"t", "h", "i", "s", " ">>),
            Styled_new("ItalicsUnderscore", <<Plain_new(<<"i", "s">>)>>),
            Plain_new(<<" ">>), Styled_new("Underline", <<Plain_new(<<"a",
            "n", " ">>), Styled_new("Strikethrough", <<Plain_new(<<"e", "x",
            "a", "m", "p", "l", "e">>)>>)>>)>>),
           Plain_new(<<NL>>),
           Styled_new("Bold", <<OneLineCode_new(<<"m", "a", "r", "k", NL, "d",
                   "o", "w", "n">>)>>),
           Plain_new(<<" ", "d", "o", "c", "u", "m", "e", "n", "t", ".",
                   NL>>),
           Styled_new("Spoiler", <<Plain_new(<<"L", "o", "r", "e", "m", " ",
                   "i", "p", "s", "u", "m", " ", ".", ".", ".">>)>>),
           Plain_new(<<NL>>),
           MultiLineCode_new(<<NL, "s", "o", "m", "e", NL, "c", "o", "d",
                   "e">>, <<>>) >>

\* src/src/lib.rs:121
EasyAndFunDocument ==
    << Plain_new(<<"g", "e", "n", "e", "r", "a", "t", "i", "n", "g", " ">>),
           OneLineCode_new(<<"m", "a", "r", "k", "d", "o", "w", "n">>),
           Plain_new(<<" ", "i", "s", " ">>),
           Styled_new("Underline", <<Styled_new("Bold", <<Plain_new(<<"e",
                   "a", "s", "y">>)>>), Plain_new(<<" ", "a", "n", "d", " ">>),
                   Styled_new("Bold", <<Plain_new(<<"f", "u", "n", "!">>)>>)>>) >>

\* src/src/generate.rs:297
ElementCollectionDocument ==
    << Styled_new("Spoiler", <<Plain_new(<<"s", "p", "o", "i", "l", "e", "r">>)>>),
       Plain_new(<<" ", "p", "l", "a", "i", "n", " ">>),
       Styled_new("Underline",
           << Styled_new("Bold",
                  <<Plain_new(<<"u", "n", "d", "e", "r", "l", "i", "n", "e", " ",
                                "b", "o", "l", "d">>)>>) >>) >>

\* src/src/generate.rs:474
BlockQuoteDocument ==
    << BlockQuote_new(<<Plain_new(<<"b", "l", "o", "c", "k", " ", "q", "u", "o", "t",
                                    "e", NL, "t", "e", "x", "t">>)>>) >>

\* src/src/generate.rs:459
MultiLineCodeDocument ==
    << MultiLineCode_new(<<NL, "m", "u", "l", "t", "i", NL, "l", "i", "n", "e", NL,
                           "c", "o", "d", "e", NL>>, << <<"j", "s">> >>) >>

\* a spoiler with a line feed and a code block with a language in a block
\* quote, a spoiler in a bold
QuotedSpoilerDocument ==
    << BlockQuote_new(
           << Styled_new("Spoiler", <<Plain_new(<<"a", NL, "b">>)>>),
              MultiLineCode_new(<<NL, "c">>, << <<"j", "s">> >>) >>),
       Styled_new("Bold", <<Styled_new("Spoiler", <<Plain_new(<<"a">>)>>)>>) >>

SampleDocuments ==
    { GenerateThenParseDocument, EasyAndFunDocument, ElementCollectionDocument,
      BlockQuoteDocument, MultiLineCodeDocument, QuotedSpoilerDocument }

\* ToMarkdownStringOption::new().omit_format(f).omit_spoiler(sp)
Options ==
    { omit_spoiler(omit_format(ToMarkdownStringOption_new, f), sp) :
          f \in BOOLEAN, sp \in BOOLEAN }

\* the calls a caller makes in a row: parse a message and generate from the
\* document; or build a document, generate, parse, generate
Scenarios ==
    { <<"receive", "parse", "generate">>,
      <<"build", "generate", "parse", "generate">>,
      <<"build", "to_markdown_string">>,
      <<"build", "to_plain_text">>,
      <<"build", "to_string">> }

MayDo(op) ==
    \E sc \in Scenarios :
        /\ Len(ops) < Len(sc)
        /\ SubSeq(sc, 1, Len(ops) + 1) = Append(ops, op)

RECURSIVE Nodes(_)
Nodes(c) ==
    IF c = <<>> THEN 0
    ELSE 1 + (IF "children" \in DOMAIN Head(c) THEN Nodes(Head(c).children) ELSE 0)
           + Nodes(Tail(c))

Last(s) == s[Len(s)]

-----------------------------------------------------------------------------
(* The state machine: a caller hands over a message or builds a document,  *)
(* then calls parse and to_markdown_string in turn.                        *)

Init ==
    /\ msg = <<>>
    /\ ast = <<>>
    /\ prev_msg = <<>>
    /\ prev_ast = <<>>
    /\ ops = <<>>
    /\ panicked = FALSE
    /\ tried = <<>>
    /\ last_option = ToMarkdownStringOption_new
    /\ text = <<>>
    /\ setter_calls = <<>>
    /\ frames = <<>>

\* the caller has a message in hand
Receive(m) ==
    /\ ops = <<>>
    /\ msg' = m
    /\ ops' = <<"receive">>
    /\ UNCHANGED <<ast, prev_msg, prev_ast, panicked, tried, last_option, text, setter_calls,
                 frames>>

\* builder::plain, one_line_code, multi_line_code: one more leaf in the vec
BuildLeaf(e) ==
    /\ ops \in {<<>>, <<"build">>}
    /\ Nodes(ast) < MaxNodes
    /\ ast' = Append(ast, e)
    /\ ops' = <<"build">>
    /\ UNCHANGED <<msg, prev_msg, prev_ast, panicked, tried, last_option, text, setter_calls,
                 frames>>

\* builder::italics_star .. spoiler, block_quote: the last k elements become
\* the content of one styled element
BuildStyled(kind, k) ==
    /\ ops \in {<<>>, <<"build">>}
    /\ Nodes(ast) < MaxNodes
    /\ k <= Len(ast)
    /\ ast' = Append(SubSeq(ast, 1, Len(ast) - k),
                     Styled_new(kind, SubSeq(ast, Len(ast) - k + 1, Len(ast))))
    /\ ops' = <<"build">>
    /\ UNCHANGED <<msg, prev_msg, prev_ast, panicked, tried, last_option, text, setter_calls,
                 frames>>

\* MarkdownDocument::new(vec![..]) with the whole vec at once
BuildDocument(d) ==
    /\ ops = <<>>
    /\ ast' = d
    /\ ops' = <<"build">>
    /\ UNCHANGED <<msg, prev_msg, prev_ast, panicked, tried, last_option, text, setter_calls,
                 frames>>

\* the parsers alt(fs) runs on i, first to last, until one succeeds
RECURSIVE Attempts(_, _, _)
Attempts(fs, k, i) ==
    IF Run(fs[k], i).ok \/ k = Len(fs) THEN <<fs[k]>>
    ELSE <<fs[k]>> \o Attempts(fs, k + 1, i)

\* the parsers markdown_element runs on i: those of markdown_element_not_plain
\* and, when all of them fail, markdown_element_plain
ElementAttempts(i) ==
    LET special == Attempts(markdown_element_not_plain_alt, 1, i)
    IN  IF Len(special) < Len(markdown_element_not_plain_alt)
           \/ Run(Last(special), i).ok
        THEN special
        ELSE Append(special, call("markdown_element_plain"))

\* lib.rs parse(msg); a panic leaves the caller without a document
Parse ==
    /\ MayDo("parse")
    /\ LET r == parse(msg)
       IN  /\ panicked' = (r.panic # "none")
           /\ ast' = r.doc
    /\ prev_ast' = ast
    /\ tried' = ElementAttempts(msg)
    /\ ops' = Append(ops, "parse")
    /\ UNCHANGED <<msg, prev_msg, last_option, text, setter_calls,
                 frames>>

\* to_markdown_string(&ToMarkdownStringOption::new()) on the document
Generate ==
    /\ MayDo("generate")
    /\ ~panicked
    /\ msg' = Document_to_markdown_string(ast, ToMarkdownStringOption_new)
    /\ prev_msg' = msg
    /\ ops' = Append(ops, "generate")
    /\ UNCHANGED <<ast, prev_ast, panicked, tried, last_option, text, setter_calls,
                 frames>>

\* doc.to_markdown_string(&option) on the built document; the document and
\* the option are borrowed, prev_ast keeps the document of before the call
ToMarkdownString(o) ==
    /\ MayDo("to_markdown_string")
    /\ text' = Document_to_markdown_string(ast, o)
    /\ last_option' = o
    /\ prev_ast' = ast
    /\ ops' = Append(ops, "to_markdown_string")
    /\ UNCHANGED <<msg, ast, prev_msg, panicked, tried, setter_calls,
                 frames>>

\* doc.to_plain_text() on the built document
ToPlainText ==
    /\ MayDo("to_plain_text")
    /\ text' = MarkdownDocument_to_plain_text(ast)
    /\ ops' = Append(ops, "to_plain_text")
    /\ UNCHANGED <<msg, ast, prev_msg, prev_ast, panicked, tried, last_option, setter_calls,
                 frames>>

\* doc.to_string() on the built document
Display ==
    /\ MayDo("to_string")
    /\ text' = MarkdownDocument_fmt(ast)
    /\ ops' = Append(ops, "to_string")
    /\ UNCHANGED <<msg, ast, prev_msg, prev_ast, panicked, tried, last_option, setter_calls,
                 frames>>

\* ToMarkdownStringOption::new()
NewOption ==
    /\ ops = <<>>
    /\ last_option' = ToMarkdownStringOption_new
    /\ setter_calls' = <<>>
    /\ ops' = <<"option">>
    /\ UNCHANGED <<msg, ast, prev_msg, prev_ast, panicked, tried, text,
                 frames>>

\* option.omit_format(value)
SetOmitFormat(value) ==
    /\ ops = <<"option">>
    /\ Len(setter_calls) < MaxSetters
    /\ last_option' = omit_format(last_option, value)
    /\ setter_calls' = Append(setter_calls, <<"omit_format", value>>)
    /\ UNCHANGED <<msg, ast, prev_msg, prev_ast, ops, panicked, tried, text,
                 frames>>

\* option.omit_spoiler(value)
SetOmitSpoiler(value) ==
    /\ ops = <<"option">>
    /\ Len(setter_calls) < MaxSetters
    /\ last_option' = omit_spoiler(last_option, value)
    /\ setter_calls' = Append(setter_calls, <<"omit_spoiler", value>>)
    /\ UNCHANGED <<msg, ast, prev_msg, prev_ast, ops, panicked, tried, text,
                 frames>>

Building ==
    \/ \E e \in Leaves : BuildLeaf(e)
    \/ \E kind \in StyledKinds \cup {"BlockQuote"}, k \in 0..MaxNodes :
           BuildStyled(kind, k)
    \/ \E d \in SampleDocuments : BuildDocument(d)

Next ==
    \/ \E m \in Messages : Receive(m)
    \/ Building
    \/ Parse
    \/ Generate
    \/ \E o \in Options : ToMarkdownString(o)
    \/ ToPlainText
    \/ Display
    \/ NewOption
    \/ \E value \in BOOLEAN : SetOmitFormat(value)
    \/ \E value \in BOOLEAN : SetOmitSpoiler(value)

Spec == Init /\ [][Next]_vars

-----------------------------------------------------------------------------
(* parse, step by step.  frames is the stack of the calls of               *)
(* markdown_element_collection that have not returned: the slice each was  *)
(* called on, what is left of it, the elements collected so far, the style *)
(* that called it and the input behind its closing delimiter.              *)

\* where d is found first in i at or behind position from, -1 when nowhere
RECURSIVE Find(_, _, _)
Find(i, d, from) ==
    IF from > Len(i) THEN 0 - 1
    ELSE IF StartsWith(Suffix(i, from), d) THEN from
    ELSE Find(i, d, from + 1)

\* delimited(tag(d), take_before1(tag(d)), tag(d)) on i: the place of the
\* closing delimiter, the first d behind the opening one; it succeeds when
\* there is one and the span in front of it is not empty
SpanEnd(i, d) == IF StartsWith(i, d) THEN Find(i, d, Len(d)) ELSE 0 - 1

\* a delimited part that takes an empty span as well
DelimitedOk_AcceptsEmptySpan(i, d) == SpanEnd(i, d) >= Len(d)

DelimitedOk(i, d) == SpanEnd(i, d) > Len(d)

Span(i, d) == SubSeq(i, Len(d) + 1, SpanEnd(i, d))

After(i, d) == Suffix(i, SpanEnd(i, d) + Len(d))

\* the delimiter and the constructor of the six styled matchers
StyleOf(name) ==
    CASE name = "italics_star"       -> [d |-> <<"*">>, kind |-> "ItalicsStar"]
      [] name = "italics_underscore" -> [d |-> <<"_">>, kind |-> "ItalicsUnderscore"]
      [] name = "bold"               -> [d |-> <<"*", "*">>, kind |-> "Bold"]
      [] name = "underline"          -> [d |-> <<"_", "_">>, kind |-> "Underline"]
      [] name = "strikethrough"      -> [d |-> <<"~", "~">>, kind |-> "Strikethrough"]
      [] name = "spoiler"            -> [d |-> <<"|", "|">>, kind |-> "Spoiler"]

\* the code matchers come first in the alternation, multi_line_code before
\* one_line_code; the result of the one that succeeds on i
CodeOk(i) == DelimitedOk(i, <<BT, BT, BT>>) \/ DelimitedOk(i, <<BT>>)

CodeAt(i) ==
    IF DelimitedOk(i, <<BT, BT, BT>>)
    THEN Ok(After(i, <<BT, BT, BT>>),
            Apply("|(lang, content)| MultiLineCode::new(content, lang)",
                  Run(pair(opt(terminated(alphanumeric1, peek(newline))), rest),
                      Span(i, <<BT, BT, BT>>)).val))
    ELSE Ok(After(i, <<BT>>), OneLineCode_new(Span(i, <<BT>>)))

\* the place in the alternation of the first styled matcher, from place k
\* on, whose delimited part succeeds on i, 0 when there is none
RECURSIVE FirstStyledFrom(_, _)
FirstStyledFrom(i, k) ==
    IF k > Len(markdown_element_not_plain_alt) THEN 0
    ELSE IF DelimitedOk(i, StyleOf(markdown_element_not_plain_alt[k][1]).d) THEN k
    ELSE FirstStyledFrom(i, k + 1)

FirstStyled(i) == FirstStyledFrom(i, 3)

\* markdown_element_not_plain succeeds on i: the collection a styled matcher
\* parses its span with never fails
SpecialAt(i) == CodeOk(i) \/ FirstStyled(i) # 0

\* a plain that takes nothing
PlainLen_Nothing(i, k) == 0

\* plain on an input where no special matcher succeeds: the text in front
\* of the first place where one does (take_before0), or all of it (rest1);
\* PlainLen is its length, looked for from place k on
RECURSIVE PlainLen(_, _)
PlainLen(i, k) ==
    IF k >= Len(i) THEN Len(i)
    ELSE IF SpecialAt(Suffix(i, k)) THEN k
    ELSE PlainLen(i, k + 1)

PlainAt(i) ==
    Ok(Suffix(i, PlainLen(i, 1)), Plain_new(Prefix(i, PlainLen(i, 1))))

Frame(slice, kind, after) ==
    [slice |-> slice, rest |-> slice, acc |-> <<>>, kind |-> kind, after |-> after]

Top == frames[Len(frames)]

\* many0 after a success of its parser: an error when the parser consumed
\* nothing (parse then panics in unwrap), else one more element
Collected(r) ==
    IF Len(r.rest) = Len(Top.rest)
    THEN /\ panicked' = TRUE
         /\ frames' = <<>>
    ELSE /\ frames' = [frames EXCEPT ![Len(frames)] =
                           [Top EXCEPT !.rest = r.rest, !.acc = Append(@, r.val)]]
         /\ UNCHANGED panicked

\* parse(msg) calls markdown_document, which calls markdown_element_collection
ParseBegin(m) ==
    /\ ops = <<>>
    /\ msg' = m
    /\ frames' = <<Frame(m, "Document", <<>>)>>
    /\ ops' = <<"parse_begin">>
    /\ UNCHANGED <<ast, prev_msg, prev_ast, panicked, tried, last_option, text,
                   setter_calls>>

\* multi_line_code or one_line_code succeeds at the cursor
StepCode ==
    /\ frames # <<>>
    /\ CodeOk(Top.rest)
    /\ Collected(CodeAt(Top.rest))
    /\ UNCHANGED <<msg, ast, prev_msg, prev_ast, ops, tried, last_option, text,
                   setter_calls>>

\* the delimited part of a styled matcher succeeds at the cursor: map_parser
\* calls markdown_element_collection on the span
StepEnter ==
    /\ frames # <<>>
    /\ ~CodeOk(Top.rest)
    /\ FirstStyled(Top.rest) # 0
    /\ LET style == StyleOf(markdown_element_not_plain_alt[FirstStyled(Top.rest)][1])
       IN  frames' = Append(frames, Frame(Span(Top.rest, style.d), style.kind,
                                          After(Top.rest, style.d)))
    /\ UNCHANGED <<msg, ast, prev_msg, prev_ast, ops, panicked, tried, last_option,
                   text, setter_calls>>

\* no special matcher succeeds at the cursor and markdown_element_plain
\* does: rest1 fails on the empty input only
StepPlain ==
    /\ frames # <<>>
    /\ ~SpecialAt(Top.rest)
    /\ Top.rest # <<>>
    /\ Collected(PlainAt(Top.rest))
    /\ UNCHANGED <<msg, ast, prev_msg, prev_ast, ops, tried, last_option, text,
                   setter_calls>>

\* markdown_element fails at the cursor
ElementFails ==
    /\ frames # <<>>
    /\ ~SpecialAt(Top.rest)
    /\ Top.rest = <<>>

\* many0 ends the collection of a span: the styled matcher gives its element
\* to the collection that called it, which goes on behind the closing
\* delimiter (map_parser drops what is left of the span)
StepReturn ==
    /\ ElementFails
    /\ Len(frames) > 1
    /\ LET caller == frames[Len(frames) - 1]
       IN  frames' = Append(SubSeq(frames, 1, Len(frames) - 2),
                            [caller EXCEPT
                                !.rest = Top.after,
                                !.acc = Append(@, Styled_new(Top.kind, Top.acc))])
    /\ UNCHANGED <<msg, ast, prev_msg, prev_ast, ops, panicked, tried, last_option,
                   text, setter_calls>>

\* many0 ends the collection of the message: parse asserts that nothing is
\* left and returns the document
ParseEnd ==
    /\ ElementFails
    /\ Len(frames) = 1
    /\ panicked' = (Top.rest # <<>>)
    /\ ast' = IF Top.rest # <<>> THEN ast ELSE Top.acc
    /\ frames' = <<>>
    /\ ops' = <<"parse_begin", "parse_end">>
    /\ UNCHANGED <<msg, prev_msg, prev_ast, tried, last_option, text, setter_calls>>

\* the steps of parse between its call and its return
ParseSteps ==
    \/ StepCode
    \/ StepEnter
    \/ StepPlain
    \/ StepReturn
    \/ ParseEnd

\* the messages whose parse is followed step by step: the short ones, those
\* with stars, those with a fence, and the tests' of at most MaxStepLen characters
StepMessages ==
    Strings(MaxLen) \cup OneDelimiterMessages("*") \cup FencedMessages
        \cup {m \in SampleMessages : Len(m) <= MaxStepLen}

StepNext ==
    \/ \E m \in StepMessages : ParseBegin(m)
    \/ ParseSteps

\* parse is one call on one thread: once called, it takes its next step as
\* long as it has one
SpecSteps == Init /\ [][StepNext]_vars /\ WF_vars(ParseSteps)

-----------------------------------------------------------------------------
(* Properties *)

\* the default rendering of a collection and of one element
Render(c) == Collection_to_markdown_string(c, ToMarkdownStringOption_new)

RenderElement(e) == Element_to_markdown_string(e, ToMarkdownStringOption_new)

\* the elements of a collection, at every depth
RECURSIVE ElementsOf(_)
ElementsOf(c) ==
    UNION { {c[k]} \cup (IF "children" \in DOMAIN c[k]
                         THEN ElementsOf(c[k].children) ELSE {}) : k \in 1..Len(c) }

JustParsed == ops # <<>> /\ Last(ops) = "parse"

\* C1: parse is total.  Whatever the message, also one with unmatched, empty
\* or malformed delimiters or the empty one, parse returns a document:
\* neither the unwrap of the parser's result nor the assertion that the
\* remaining input is empty panics.
C1_ParseIsTotal == ~panicked

\* parse has returned the document of a message with an unclosed delimiter
C1_Witness ==
    /\ ops = <<"receive", "parse">>
    /\ msg = <<"*", "*", "a">>
    /\ ~panicked
    /\ ast = <<Plain_new(msg)>>

\* C2: round trip render, parse, render.  For every text that is the default
\* rendering of a built document without block quotes, the default rendering
\* of parse(text) is text again.
C2_RenderParseRender ==
    ( /\ ops = <<"build", "generate", "parse", "generate">>
      /\ \A e \in ElementsOf(prev_ast) : e.kind # "BlockQuote" )
    => msg = prev_msg

\* the text of a nested document has been parsed and rendered again
C2_Witness ==
    /\ ops = <<"build", "generate", "parse", "generate">>
    /\ prev_ast = GenerateThenParseDocument
    /\ Len(prev_msg) > 0
    /\ msg = prev_msg

DelimiterChars == {"*", "_", "~", "|", BT}

HasCharIn(s, chars) == \E k \in 1..Len(s) : s[k] \in chars

NoAdjacentPlain(c) ==
    \A k \in 1..(Len(c) - 1) : ~(c[k].kind = "Plain" /\ c[k + 1].kind = "Plain")

\* the length of the longest alphanumeric prefix of s
AlphaPrefix(s) ==
    CHOOSE n \in 0..Len(s) :
        /\ \A k \in 1..n : s[k] \in AlphaNumeric
        /\ n < Len(s) => s[n + 1] \notin AlphaNumeric

\* no block quote and nothing of length zero
NoZeroLength(e) ==
    CASE e.kind = "Plain"         -> e.content # <<>>
      [] e.kind = "OneLineCode"   -> e.content # <<>>
      [] e.kind = "MultiLineCode" -> e.content # <<>> /\ e.language # << <<>> >>
      [] e.kind = "BlockQuote"    -> FALSE
      [] OTHER                    -> e.children # <<>>

\* an element the parser gives back as it was built: its text holds nothing
\* the parser reads as a delimiter of its own
ParsesBack(e) ==
    CASE e.kind = "Plain" -> ~HasCharIn(e.content, DelimiterChars)
      [] e.kind = "OneLineCode" -> ~HasCharIn(e.content, {BT})
      [] e.kind = "MultiLineCode" ->
            /\ ~HasCharIn(e.content, {BT})
            /\ IF e.language = <<>>
               THEN ~( /\ AlphaPrefix(e.content) > 0
                       /\ AlphaPrefix(e.content) < Len(e.content)
                       /\ e.content[AlphaPrefix(e.content) + 1] = NL )
               ELSE /\ AlphaPrefix(e.language[1]) = Len(e.language[1])
                    /\ e.content[1] = NL
      [] e.kind = "BlockQuote" -> FALSE
      [] OTHER ->
            /\ ~HasCharIn(Render(e.children), {Delimiter(e.kind)[1]})
            /\ NoAdjacentPlain(e.children)

BuiltThenParsed == ops = <<"build", "generate", "parse">>

\* C3, as stated: round trip build, render, parse.  For every built document
\* without block quotes and without a span or content of length zero,
\* parse of its default rendering is the document again.
C3_BuildRenderParse_AsStated ==
    (BuiltThenParsed /\ \A e \in ElementsOf(prev_ast) : NoZeroLength(e))
    => ast = prev_ast

\* C3, amended: the same for the built documents in which, besides, no two
\* Plain elements are adjacent siblings, no Plain content holds one of the
\* characters * _ ~ | or a backtick, no code content holds a backtick, the
\* rendering of the children of a styled element does not hold the character
\* of that element's delimiter, and the language of a multi-line code is,
\* when present, alphanumeric with the content beginning with a line feed and,
\* when absent, the content does not begin with an alphanumeric run followed
\* by a line feed.
C3_BuildRenderParse ==
    ( /\ BuiltThenParsed
      /\ NoAdjacentPlain(prev_ast)
      /\ \A e \in ElementsOf(prev_ast) : NoZeroLength(e) /\ ParsesBack(e) )
    => ~panicked /\ ast = prev_ast

\* the document of the round trip test has been rendered and parsed back
C3_Witness ==
    /\ BuiltThenParsed
    /\ prev_ast = GenerateThenParseDocument
    /\ NoAdjacentPlain(prev_ast)
    /\ \A e \in ElementsOf(prev_ast) : NoZeroLength(e) /\ ParsesBack(e)
    /\ ast = prev_ast

IsPrefix(s, t) == Len(s) <= Len(t) /\ SubSeq(t, 1, Len(s)) = s

\* C4, as stated: at the head of a message the matchers are tried in the
\* order multi-line code, one-line code, bold, underline, italics-star,
\* italics-underscore, strikethrough, spoiler and only then plain text, up to
\* the first that succeeds.
C4_MatcherOrder_AsStated ==
    JustParsed =>
        /\ tried # <<>>
        /\ IsPrefix(tried,
                    << <<"multi_line_code">>, <<"one_line_code">>, <<"bold">>,
                       <<"underline">>, <<"italics_star">>,
                       <<"italics_underscore">>, <<"strikethrough">>,
                       <<"spoiler">>, <<"markdown_element_plain">> >>)

\* C4, amended: the order is multi-line code, one-line code, italics-star,
\* italics-underscore, bold, underline, strikethrough, spoiler and only then
\* plain text: the single-character matchers italics-star and
\* italics-underscore are tried before the double-character matchers bold and
\* underline.
C4_MatcherOrder ==
    JustParsed =>
        /\ tried # <<>>
        /\ IsPrefix(tried,
                    << <<"multi_line_code">>, <<"one_line_code">>,
                       <<"italics_star">>, <<"italics_underscore">>, <<"bold">>,
                       <<"underline">>, <<"strikethrough">>, <<"spoiler">>,
                       <<"markdown_element_plain">> >>)

\* bold has matched at the head of a message, behind the four matchers tried
\* in front of it
C4_Witness ==
    /\ ops = <<"receive", "parse">>
    /\ msg = <<"*", "*", "t", "e", "x", "t", "*", "*">>
    /\ ast = <<Styled_new("Bold", <<Plain_new(<<"t", "e", "x", "t">>)>>)>>
    /\ tried = << <<"multi_line_code">>, <<"one_line_code">>, <<"italics_star">>,
                  <<"italics_underscore">>, <<"bold">> >>

\* the positions of the text of the collection c, which begins behind the
\* first offset characters, that hold the opening and closing delimiters of
\* its styled elements, at every depth
RECURSIVE StyledDelimiterPositions(_, _)
StyledDelimiterPositions(c, offset) ==
    UNION { LET e     == c[k]
                start == offset + Len(Render(SubSeq(c, 1, k - 1)))
                size  == Len(RenderElement(e))
                d     == Len(Delimiter(e.kind))
            IN  IF e.kind \in StyledKinds
                THEN (start + 1)..(start + d)
                         \cup (start + size - d + 1)..(start + size)
                         \cup StyledDelimiterPositions(e.children, start + d)
                ELSE {} : k \in 1..Len(c) }

\* the code spans of m: a backtick with an even number of backticks in front
\* of it, a non-empty text without backticks, a backtick
CodeSpans(m) ==
    { p \in (1..Len(m)) \X (1..Len(m)) :
        /\ m[p[1]] = BT /\ m[p[2]] = BT
        /\ p[2] > p[1] + 1
        /\ \A k \in (p[1] + 1)..(p[2] - 1) : m[k] # BT
        /\ Cardinality({k \in 1..(p[1] - 1) : m[k] = BT}) % 2 = 0 }

\* C5, as stated: delimiter characters inside code are never reinterpreted.
\* In a parsed message no character between the two backticks of a code span
\* is the opening or closing delimiter of an emphasis, strikethrough or
\* spoiler element, also when such an element was opened in front of the
\* code span.
C5_CodeShieldsDelimiters_AsStated ==
    (JustParsed /\ ~panicked) =>
        \A p \in CodeSpans(msg) :
            \A k \in (p[1] + 1)..(p[2] - 1) :
                k \notin StyledDelimiterPositions(ast, 0)

\* the eight delimiters
Delimiters ==
    { <<"*">>, <<"_">>, <<"*", "*">>, <<"_", "_">>, <<"~", "~">>, <<"|", "|">>,
      <<BT>>, <<BT, BT, BT>> }

\* d + d, d + t or t + d for a delimiter d and a non-empty t without
\* delimiter characters
EmptyOrUnclosed(m) ==
    \E d \in Delimiters :
        \/ m = d \o d
        \/ /\ Len(m) > Len(d)
           /\ \/ /\ StartsWith(m, d)
                 /\ ~HasCharIn(Suffix(m, Len(d)), DelimiterChars)
              \/ /\ Suffix(m, Len(m) - Len(d)) = d
                 /\ ~HasCharIn(Prefix(m, Len(m) - Len(d)), DelimiterChars)

\* C6: empty or unclosed spans are plain text.  On d + d, and on d + t and
\* t + d for a non-empty t without delimiter characters, none of the eight
\* matchers succeeds, and parse gives a single Plain element holding the
\* whole message.
C6_EmptyOrUnclosedIsPlain ==
    (JustParsed /\ EmptyOrUnclosed(msg)) =>
        /\ ~markdown_element_not_plain(msg).ok
        /\ ast = <<Plain_new(msg)>>

\* four spoiler bars have been parsed into one Plain element
C6_Witness ==
    /\ ops = <<"receive", "parse">>
    /\ msg = <<"|", "|", "|", "|">>
    /\ EmptyOrUnclosed(msg)
    /\ ast = <<Plain_new(msg)>>

\* the payload of an element: the text between its delimiters
Payload(e) ==
    CASE e.kind = "OneLineCode"   -> e.content
      [] e.kind = "MultiLineCode" -> Concat(e.language) \o e.content
      [] OTHER                    -> Render(e.children)

\* the numbers of characters in front of the occurrences of d in m that begin
\* behind the first Len(d) characters
Occurrences(m, d) ==
    {q \in Len(d)..(Len(m) - Len(d)) : SubSeq(m, q + 1, q + Len(d)) = d}

Leftmost(m, d) == CHOOSE q \in Occurrences(m, d) : \A r \in Occurrences(m, d) : q <= r

\* C7: shortest match.  When a message begins with a styled or code element,
\* the closing delimiter is the leftmost occurrence of the delimiter behind
\* the opening one, the payload is the text between the two, and the rest of
\* the collection is the parse of what follows the closing delimiter.
C7_ShortestMatch ==
    (JustParsed /\ ast # <<>> /\ ast[1].kind # "Plain") =>
        LET d == Delimiter(ast[1].kind)
        IN  /\ StartsWith(msg, d)
            /\ Occurrences(msg, d) # {}
            /\ Payload(ast[1]) = SubSeq(msg, Len(d) + 1, Leftmost(msg, d))
            /\ Tail(ast) = markdown_document(Suffix(msg, Leftmost(msg, d) + Len(d))).val

\* bold has closed at the first of two closing delimiters
C7_Witness ==
    /\ ops = <<"receive", "parse">>
    /\ msg = <<"*", "*", "a", "*", "*", "b", "*", "*">>
    /\ ast = << Styled_new("Bold", <<Plain_new(<<"a">>)>>),
                Plain_new(<<"b", "*", "*">>) >>

\* m begins with a backtick, a non-empty text without backticks, a backtick
BeginsWithOneLineCode(m) ==
    /\ Len(m) >= 3
    /\ m[1] = BT /\ m[2] # BT
    /\ Occurrences(m, <<BT>>) # {}

\* m begins with a fence, a non-empty text, a fence
BeginsWithMultiLineCode(m) ==
    /\ StartsWith(m, <<BT, BT, BT>>)
    /\ Occurrences(m, <<BT, BT, BT>>) # {}
    /\ Leftmost(m, <<BT, BT, BT>>) > 3

\* the text between the fences
FencedSpan(m) == SubSeq(m, 4, Leftmost(m, <<BT, BT, BT>>))

\* C8: code suppresses nested parsing.  A message that begins with a code
\* span gives a code leaf whose payload is the span as it stands, whatever
\* delimiter characters it holds: a OneLineCode with the text between the
\* backticks as content, a MultiLineCode whose language and content make up
\* the text between the fences.
C8_CodeIsVerbatim ==
    JustParsed =>
        /\ BeginsWithOneLineCode(msg) =>
               /\ ast # <<>>
               /\ ast[1] = OneLineCode_new(SubSeq(msg, 2, Leftmost(msg, <<BT>>)))
        /\ BeginsWithMultiLineCode(msg) =>
               /\ ast # <<>>
               /\ ast[1].kind = "MultiLineCode"
               /\ DOMAIN ast[1] = {"kind", "content", "language"}
               /\ Concat(ast[1].language) \o ast[1].content = FencedSpan(msg)

\* an underline inside backticks has been kept as the content of the code
C8_Witness ==
    /\ ops = <<"receive", "parse">>
    /\ msg = <<BT, "_", "_", "h", "e", "l", "l", "o", "_", "_", BT, " ", "|", "|",
               "w", "o", "r", "l", "d", "|", "|">>
    /\ ast = << OneLineCode_new(<<"_", "_", "h", "e", "l", "l", "o", "_", "_">>),
                Plain_new(<<" ">>),
                Styled_new("Spoiler", <<Plain_new(<<"w", "o", "r", "l", "d">>)>>) >>

\* C9: language tag extraction.  When the text between two fences begins with
\* a maximal non-empty alphanumeric run followed by a line feed, the language
\* is that run and the content is the remainder from the line feed on;
\* otherwise there is no language and the content is the whole text.
C9_LanguageTag ==
    (JustParsed /\ BeginsWithMultiLineCode(msg)) =>
        LET span == FencedSpan(msg)
            n    == AlphaPrefix(span)
        IN  /\ ast # <<>>
            /\ ast[1] = IF n > 0 /\ n < Len(span) /\ span[n + 1] = NL
                        THEN MultiLineCode_new(SubSeq(span, n + 1, Len(span)),
                                               <<SubSeq(span, 1, n)>>)
                        ELSE MultiLineCode_new(span, <<>>)

\* the language js has been taken off a fenced block
C9_Witness ==
    /\ ops = <<"receive", "parse">>
    /\ msg = <<BT, BT, BT, "j", "s", NL, "f", "o", "o", NL, BT, BT, BT>>
    /\ ast = <<MultiLineCode_new(<<NL, "f", "o", "o", NL>>, << <<"j", "s">> >>)>>

RECURSIVE LeafText(_)
LeafText(c) ==
    IF c = <<>> THEN <<>>
    ELSE (IF "content" \in DOMAIN Head(c) THEN Head(c).content
          ELSE LeafText(Head(c).children)) \o LeafText(Tail(c))

\* how often the character ch occurs in s
Count(s, ch) == Cardinality({k \in 1..Len(s) : s[k] = ch})

\* C11: the parser never produces a BlockQuote.  Whatever the message, also
\* one whose lines begin with "> ", no element of the parsed document, at
\* any depth, is a BlockQuote, and every > of the message is in the content
\* of a Plain or code leaf.
C11_NoBlockQuoteParsed ==
    (JustParsed /\ ~panicked) =>
        /\ \A e \in ElementsOf(ast) : e.kind # "BlockQuote"
        /\ Count(LeafText(ast), ">") = Count(msg, ">")

\* two quoted lines have been parsed: the > are plain text
C11_Witness ==
    /\ ops = <<"receive", "parse">>
    /\ msg = <<">", " ", "a", NL, ">", " ", "*", "b", "*">>
    /\ ast = << Plain_new(<<">", " ", "a", NL, ">", " ">>),
                Styled_new("ItalicsStar", <<Plain_new(<<"b">>)>>) >>

\* C12: asymmetric nesting.  An italics at the head of a bold, and of an
\* underline, is parsed as written; a bold at the head of an italics, and
\* an underline at the head of an italics, is not parsed as the mirrored
\* nesting.
C12_AsymmetricNesting ==
    JustParsed =>
        /\ msg = <<"*", "*", "*", "i", "t", "a", "l", "i", "c", "s", "*",
                   " ", "i", "n", " ", "b", "o", "l", "d", "*", "*">>
               => ast = << Styled_new("Bold",
                              << Styled_new("ItalicsStar", <<Plain_new(<<"i", "t", "a", "l", "i", "c", "s">>)>>),
                                 Plain_new(<<" ", "i", "n", " ", "b", "o",
                                             "l", "d">>) >>) >>
        /\ msg = <<"_", "_", "_", "i", "t", "a", "l", "i", "c", "s", "_",
                   " ", "i", "n", " ", "u", "n", "d", "e", "r", "l", "i",
                   "n", "e", "_", "_">>
               => ast = << Styled_new("Underline",
                              << Styled_new("ItalicsUnderscore", <<Plain_new(<<"i", "t", "a", "l", "i", "c", "s">>)>>),
                                 Plain_new(<<" ", "i", "n", " ", "u", "n",
                                             "d", "e", "r", "l", "i", "n", "e">>) >>) >>
        /\ msg = <<"*", "*", "*", "b", "o", "l", "d", "*", "*", " ", "i",
                   "n", " ", "i", "t", "a", "l", "i", "c", "s", "*">>
               => ast # << Styled_new("ItalicsStar",
                              << Styled_new("Bold", <<Plain_new(<<"b", "o", "l", "d">>)>>),
                                 Plain_new(<<" ", "i", "n", " ", "i", "t",
                                             "a", "l", "i", "c", "s">>) >>) >>
        /\ msg = <<"_", "_", "_", "u", "n", "d", "e", "r", "l", "i", "n",
                   "e", "_", "_", " ", "i", "n", " ", "i", "t", "a", "l",
                   "i", "c", "s", "_">>
               => ast # << Styled_new("ItalicsUnderscore",
                              << Styled_new("Underline", <<Plain_new(<<"u", "n", "d", "e", "r", "l", "i",
                                        "n", "e">>)>>),
                                 Plain_new(<<" ", "i", "n", " ", "i", "t",
                                             "a", "l", "i", "c", "s">>) >>) >>

\* the bold at the head of an italics has been parsed: the bold closes at the
\* first two stars and holds the third star of the opening as text
C12_Witness ==
    /\ ops = <<"receive", "parse">>
    /\ msg = <<"*", "*", "*", "b", "o", "l", "d", "*", "*", " ", "i", "n",
               " ", "i", "t", "a", "l", "i", "c", "s", "*">>
    /\ ast = << Styled_new("Bold", <<Plain_new(<<"*", "b", "o", "l", "d">>)>>),
                Plain_new(<<" ", "i", "n", " ", "i", "t", "a", "l", "i", "c",
                            "s", "*">>) >>

\* s is a word: letters and digits, at least one
Word(s) == s # <<>> /\ \A k \in 1..Len(s) : s[k] \in AlphaNumeric

\* the kind of the element a delimiter of emphasis opens
EmphasisOf(d) ==
    CASE d = <<"*">>      -> "ItalicsStar"
      [] d = <<"_">>      -> "ItalicsUnderscore"
      [] d = <<"*", "*">> -> "Bold"
      [] d = <<"_", "_">> -> "Underline"

\* C13: intraword emphasis is always recognised.  No delimiter looks at the
\* characters around it: a message made of a word, a delimiter of emphasis,
\* a word, the delimiter and a word is the first word as Plain, the
\* emphasis with the second word, and the third word as Plain; foo_bar_baz
\* is foo, an ItalicsUnderscore with bar, baz.
C13_IntrawordEmphasis ==
    JustParsed =>
        \A d \in {<<"*">>, <<"_">>, <<"*", "*">>, <<"_", "_">>} :
            \A p \in 1..Len(msg), q \in 1..Len(msg) :
                LET w1 == SubSeq(msg, 1, p)
                    w2 == SubSeq(msg, p + Len(d) + 1, q - 1)
                    w3 == SubSeq(msg, q + Len(d), Len(msg))
                IN  ( /\ q > p + Len(d)
                      /\ msg = w1 \o d \o w2 \o d \o w3
                      /\ Word(w1) /\ Word(w2) /\ Word(w3) )
                    => ast = << Plain_new(w1),
                                Styled_new(EmphasisOf(d), <<Plain_new(w2)>>),
                                Plain_new(w3) >>

\* the underscores inside foo_bar_baz have made an italics
C13_Witness ==
    /\ ops = <<"receive", "parse">>
    /\ msg = <<"f", "o", "o", "_", "b", "a", "r", "_", "b", "a", "z">>
    /\ ast = << Plain_new(<<"f", "o", "o">>),
                Styled_new("ItalicsUnderscore", <<Plain_new(<<"b", "a", "r">>)>>),
                Plain_new(<<"b", "a", "z">>) >>

\* C14: no escaping.  A backslash is a plain character and changes nothing
\* in how the text behind it is read: the document of a message that begins
\* with a backslash is the document of the rest of the message, with the
\* backslash put in front of the Plain element the rest begins with, or as a
\* Plain element of its own when the rest begins with a styled or code
\* element or is empty.
C14_NoEscaping ==
    (JustParsed /\ msg # <<>> /\ Head(msg) = "\\") =>
        LET r == markdown_document(Tail(msg)).val
        IN  ast = IF r # <<>> /\ r[1].kind = "Plain"
                  THEN <<Plain_new(<<"\\">> \o r[1].content)>> \o Tail(r)
                  ELSE <<Plain_new(<<"\\">>)>> \o r

\* the star behind a backslash has opened an italics
C14_Witness ==
    /\ ops = <<"receive", "parse">>
    /\ msg = <<"\\", "*", "a", "*">>
    /\ ast = <<Plain_new(<<"\\">>), Styled_new("ItalicsStar", <<Plain_new(<<"a">>)>>)>>

\* a document has been built and rendered with option o
Rendered(o) == ops = <<"build", "to_markdown_string">> /\ last_option = o

NoBlockQuote(c) == \A e \in ElementsOf(c) : e.kind # "BlockQuote"

\* the text the claim gives for a collection without block quotes: the
\* elements in order, a Plain as its content, every other element as its
\* delimiter, what it holds, and the delimiter again
RECURSIVE MarkdownText(_)
MarkdownText(c) ==
    IF c = <<>> THEN <<>>
    ELSE LET e == Head(c)
             d == Delimiter(e.kind)
         IN  (CASE e.kind = "Plain"         -> e.content
                [] e.kind = "OneLineCode"   -> d \o e.content \o d
                [] e.kind = "MultiLineCode" ->
                       d \o (IF e.language = <<>> THEN <<>> ELSE e.language[1])
                         \o e.content \o d
                [] OTHER -> d \o MarkdownText(e.children) \o d)
             \o MarkdownText(Tail(c))

\* C15: markdown rendering with default options.  A collection renders as its
\* elements' renderings in order, Plain as its content, a styled element as
\* its delimiter (* _ ** __ ~~ ||), the rendering of its children and the
\* delimiter, OneLineCode as backtick, content, backtick, MultiLineCode as
\* three backticks, the language when there is one, the content and three
\* backticks.
C15_DefaultRendering ==
    (Rendered(ToMarkdownStringOption_new) /\ NoBlockQuote(ast))
    => text = MarkdownText(ast)

\* the collection of the generator's test has been rendered
C15_Witness ==
    /\ Rendered(ToMarkdownStringOption_new)
    /\ ast = ElementCollectionDocument
    /\ text = <<"|", "|", "s", "p", "o", "i", "l", "e", "r", "|", "|", " ", "p", "l",
                "a", "i", "n", " ", "_", "_", "*", "*", "u", "n", "d", "e", "r", "l",
                "i", "n", "e", " ", "b", "o", "l", "d", "*", "*", "_", "_">>

\* C16: omit_format strips all styling at every depth.  With omit_format set
\* and omit_spoiler unset, the rendering of any document, block quotes,
\* spoilers and code with a language included, is the contents of its Plain,
\* OneLineCode and MultiLineCode leaves in order and nothing else: no
\* delimiter, no fence, no language, no "> ".
C16_OmitFormat ==
    Rendered(omit_format(ToMarkdownStringOption_new, TRUE)) => text = LeafText(ast)

\* a block quote with a spoiler and a code block with a language, and a bold
\* with a spoiler, have been rendered without format
C16_Witness ==
    /\ Rendered(omit_format(ToMarkdownStringOption_new, TRUE))
    /\ ast = QuotedSpoilerDocument
    /\ text = <<"a", NL, "b", NL, "c", "a">>

\* a collection without its Spoiler elements, at every depth
RECURSIVE WithoutSpoilers(_)
WithoutSpoilers(c) ==
    IF c = <<>> THEN <<>>
    ELSE LET e == Head(c)
         IN  (CASE e.kind = "Spoiler" -> <<>>
                [] "children" \in DOMAIN e /\ e.kind # "Spoiler" ->
                       <<[e EXCEPT !.children = WithoutSpoilers(e.children)]>>
                [] OTHER -> <<e>>)
             \o WithoutSpoilers(Tail(c))

\* C17: spoiler omission.  With omit_spoiler set, whatever omit_format is,
\* every Spoiler at any depth renders as the empty text and everything else
\* renders as without the flag: the rendering is that of the document with
\* its Spoiler elements taken out, under the same omit_format; a Bold whose
\* only child is a Spoiler renders as four stars.
C17_OmitSpoiler ==
    \A f \in BOOLEAN :
        Rendered(omit_spoiler(omit_format(ToMarkdownStringOption_new, f), TRUE))
        => text = Collection_to_markdown_string(
                      WithoutSpoilers(ast),
                      omit_format(ToMarkdownStringOption_new, f))

\* the spoiler in the block quote and the spoiler in the bold have left
\* nothing behind but the bold's four stars
C17_Witness ==
    /\ Rendered(omit_spoiler(ToMarkdownStringOption_new, TRUE))
    /\ ast = QuotedSpoilerDocument
    /\ text = <<">", " ", BT, BT, BT, "j", "s", NL, ">", " ", "c", BT, BT, BT,
                "*", "*", "*", "*">>

\* C18: plain-text extraction equals format-stripped rendering.  For every
\* document, with spoilers, code with a language and block quotes,
\* to_plain_text gives what to_markdown_string gives with omit_format set and
\* omit_spoiler unset.
C18_PlainTextIsOmitFormat ==
    ops = <<"build", "to_plain_text">>
    => text = Document_to_markdown_string(
                  ast, omit_format(ToMarkdownStringOption_new, TRUE))

\* the plain text of a block quote with a spoiler and a code block with a
\* language has been taken
C18_Witness ==
    /\ ops = <<"build", "to_plain_text">>
    /\ ast = QuotedSpoilerDocument
    /\ text = <<"a", NL, "b", NL, "c", "a">>

\* s with "> " in front of it and behind each of its line feeds
RECURSIVE BehindLineFeeds(_)
BehindLineFeeds(s) ==
    IF s = <<>> THEN <<>>
    ELSE (IF Head(s) = NL THEN <<NL, ">", " ">> ELSE <<Head(s)>>)
             \o BehindLineFeeds(Tail(s))

Quoted(s) == <<">", " ">> \o BehindLineFeeds(s)

\* the document is one block quote
OneBlockQuote == Len(ast) = 1 /\ ast[1].kind = "BlockQuote"

\* C19: block quote rendering.  With omit_format unset a block quote renders
\* as the rendering of its children, under the same options, with "> " in
\* front of every line: as many lines as the children's rendering has, each
\* beginning with "> ", and "> " alone when that rendering is empty.  With
\* omit_format set it renders as its children's rendering.  Display does
\* the same with the display of the children.
C19_BlockQuoteRendering ==
    /\ \A o \in Options :
           (Rendered(o) /\ OneBlockQuote) =>
               LET inner == Collection_to_markdown_string(ast[1].children, o)
               IN  IF o.omit_format THEN text = inner
                   ELSE /\ text = Quoted(inner)
                        /\ Count(text, NL) = Count(inner, NL)
                        /\ inner = <<>> => text = <<">", " ">>
    /\ (ops = <<"build", "to_string">> /\ OneBlockQuote) =>
           text = Quoted(MarkdownElementCollection_fmt(ast[1].children))

\* the two lines of the generator's test have been quoted
C19_Witness ==
    /\ Rendered(ToMarkdownStringOption_new)
    /\ ast = BlockQuoteDocument
    /\ text = <<">", " ", "b", "l", "o", "c", "k", " ", "q", "u", "o", "t",
               "e", NL, ">", " ", "t", "e", "x", "t">>

\* C20: Display agrees with the serializer.  For every document, nested,
\* with code with and without a language and with block quotes, to_string
\* gives what to_markdown_string gives with the default options.
C20_DisplayIsDefaultRendering ==
    ops = <<"build", "to_string">>
    => text = Document_to_markdown_string(ast, ToMarkdownStringOption_new)

\* a code block with a language has been displayed
C20_Witness ==
    /\ ops = <<"build", "to_string">>
    /\ ast = MultiLineCodeDocument
    /\ text = <<BT, BT, BT, "j", "s", NL, "m", "u", "l", "t", "i", NL, "l",
               "i", "n", "e", NL, "c", "o", "d", "e", NL, BT, BT, BT>>

\* the value of the last call of the setter `name`, the default when it was
\* never called
RECURSIVE LastGiven(_, _)
LastGiven(calls, name) ==
    IF calls = <<>> THEN FALSE
    ELSE IF Last(calls)[1] = name THEN Last(calls)[2]
    ELSE LastGiven(SubSeq(calls, 1, Len(calls) - 1), name)

\* C21: the options value.  A new value has both flags false; after any
\* sequence of setter calls each flag holds the last value given to its own
\* setter (a setter leaves the other flag alone); and rendering changes
\* neither the options value it is given nor the document.
C21_OptionSetters ==
    /\ ops = <<"option">> =>
           /\ last_option.omit_format = LastGiven(setter_calls, "omit_format")
           /\ last_option.omit_spoiler = LastGiven(setter_calls, "omit_spoiler")
    /\ ops = <<"build", "to_markdown_string">> =>
           /\ ast = prev_ast
           /\ last_option \in Options

\* omit_spoiler(true) was called and omit_format(false) after it
C21_Witness ==
    /\ ops = <<"option">>
    /\ setter_calls = << <<"omit_spoiler", TRUE>>, <<"omit_format", FALSE>> >>
    /\ last_option = [omit_format |-> FALSE, omit_spoiler |-> TRUE]
\* the calls of markdown_element that many0 makes while it parses the slice
\* i, each with its input and its result: on i itself and on what each
\* successful call leaves
RECURSIVE Calls(_)
Calls(i) ==
    LET r == markdown_element(i)
        call_ == [input |-> i, result |-> r]
    IN  IF r.ok /\ Len(r.rest) < Len(i) THEN {call_} \cup Calls(r.rest) ELSE {call_}

ReceivedThenParsed == ops = <<"receive", "parse">>

\* C22: the plain-text run.  A Plain produced while the message is parsed
\* starts where no special matcher succeeds and extends exactly to the first
\* later position where one succeeds, or to the end of the slice; no special
\* matcher succeeds strictly inside the run.
C22_PlainRun ==
    ReceivedThenParsed =>
        \A c \in Calls(msg) :
            LET i == c.input
                r == c.result
                n == Len(i) - Len(r.rest)
            IN  (r.ok /\ r.val.kind = "Plain") =>
                    /\ ~markdown_element_not_plain(i).ok
                    /\ n >= 1
                    /\ r.val.content = Prefix(i, n)
                    /\ r.rest = Suffix(i, n)
                    /\ \A j \in 1..(n - 1) :
                           ~markdown_element_not_plain(Suffix(i, j)).ok
                    /\ n = Len(i) \/ markdown_element_not_plain(Suffix(i, n)).ok

\* "text *italics*": the Plain "text " ends in front of the italics
C22_Witness ==
    /\ ReceivedThenParsed
    /\ msg = <<"t", "e", "x", "t", " ", "*", "i", "t", "a", "l", "i", "c", "s", "*">>
    /\ Len(ast) = 2
    /\ ast[1] = Plain_new(<<"t", "e", "x", "t", " ">>)
    /\ ast[2].kind = "ItalicsStar"
\* C23: markdown_element succeeds on every non-empty input: it consumes a
\* non-empty prefix as one element and returns what is left of the input.  It
\* fails, with an error and nothing consumed, exactly when the input is
\* empty, and this failure ends the loop of the collection: the document has
\* one element for each successful call.
C23_ElementSucceedsOnNonEmpty ==
    ReceivedThenParsed =>
        /\ \A c \in Calls(msg) :
               LET i == c.input
                   r == c.result
                   n == Len(i) - Len(r.rest)
               IN  /\ r.ok <=> i # <<>>
                   /\ r.ok => /\ n >= 1
                              /\ r.rest = Suffix(i, n)
                              /\ "kind" \in DOMAIN r.val
                   /\ ~r.ok => r.rest = i /\ r.err # "None"
        /\ \E c \in Calls(msg) : c.input = <<>>
        /\ ~panicked
        /\ Len(ast) = Cardinality(Calls(msg)) - 1

\* "hello**world**": Plain("hello") with "**world**" left, then the bold,
\* then the failure on the empty input
C23_Witness ==
    /\ ReceivedThenParsed
    /\ msg = <<"h", "e", "l", "l", "o", "*", "*", "w", "o", "r", "l", "d", "*", "*">>
    /\ markdown_element(msg) =
           Ok(<<"*", "*", "w", "o", "r", "l", "d", "*", "*">>,
              Plain_new(<<"h", "e", "l", "l", "o">>))
    /\ Len(ast) = 2
    /\ ~markdown_element(<<>>).ok
\* the eight matchers with a delimiter on both sides
DelimitedMatchers ==
    { <<"multi_line_code", <<BT, BT, BT>>>>, <<"one_line_code", <<BT>>>>,
      <<"italics_star", <<"*">>>>, <<"italics_underscore", <<"_">>>>,
      <<"bold", <<"*", "*">>>>, <<"underline", <<"_", "_">>>>,
      <<"strikethrough", <<"~", "~">>>>, <<"spoiler", <<"|", "|">>>> }

\* d occurs in i at or behind position k
FollowsAt(i, d, k) == \E j \in k..Len(i) : StartsWith(Suffix(i, j), d)

\* C24: the failures of the eight delimited and code matchers.  A Tag error
\* at the unchanged input when the input does not start with the opening
\* delimiter, an Eof error when no closing delimiter follows the opening one,
\* a Verify error when the closing delimiter follows at once; there is no
\* other failure, and none aborts the alternation: each parser that
\* markdown_element tries runs on the unchanged input, and the result is that
\* of the last one tried.
C24_MatcherFailures ==
    ReceivedThenParsed =>
        LET result == [m \in DelimitedMatchers \cup {<<"markdown_element_plain", <<>>>>}
                          |-> Run(call(m[1]), msg)]
            of(name) == result[CHOOSE m \in DOMAIN result : m[1] = name]
        IN  /\ \A m \in DelimitedMatchers :
                   LET d == m[2]
                       r == result[m]
                       inner == Suffix(msg, Len(d))
                   IN  /\ ~StartsWith(msg, d) =>
                              ~r.ok /\ r.err = "Tag" /\ r.rest = msg
                       /\ (StartsWith(msg, d) /\ ~FollowsAt(inner, d, 0)) =>
                              ~r.ok /\ r.err = "Eof"
                       /\ (StartsWith(msg, d) /\ StartsWith(inner, d)) =>
                              ~r.ok /\ r.err = "Verify"
                       /\ ~r.ok => r.err \in {"Tag", "Eof", "Verify"}
            /\ \A k \in 1..(Len(tried) - 1) : ~of(tried[k][1]).ok
            /\ markdown_element(msg) = of(Last(tried)[1])

\* "****": bold fails with Verify behind its opening delimiter, spoiler with
\* Tag at the input, and the message is plain text
C24_Witness ==
    /\ ReceivedThenParsed
    /\ msg = <<"*", "*", "*", "*">>
    /\ bold(msg) = Err(<<"*", "*">>, "Verify")
    /\ spoiler(msg) = Err(msg, "Tag")
    /\ Len(tried) = 9
    /\ ast = <<Plain_new(msg)>>
ParseBegun == ops = <<"parse_begin">>

ParseEnded == ops = <<"parse_begin", "parse_end">>

\* every call of markdown_element_collection that has not returned is on a
\* span that is strictly shorter than the slice it was cut from
SpansShrink ==
    \A k \in 2..Len(frames) :
        /\ Len(frames[k].slice) < Len(frames[k - 1].rest)
        /\ Len(frames[k - 1].rest) <= Len(frames[k - 1].slice)

\* a step that adds an element to a collection moves its cursor forward
StepAdvances ==
    (frames # <<>> /\ frames' # <<>> /\ Len(frames') <= Len(frames)) =>
        LET k == Len(frames')
        IN  /\ Len(frames'[k].acc) = Len(frames[k].acc) + 1
            /\ Len(frames'[k].rest) < Len(frames[k].rest)

\* C25: parse terminates.  Every element added to a collection moves the
\* cursor of its slice forward by at least one character, so many0 never
\* reports that its parser consumed nothing; every nested call of
\* markdown_element_collection is on a span strictly shorter than the slice
\* it was cut from; and parse, once called, returns, with the document of
\* the message.
C25_ParseTerminates ==
    /\ [](SpansShrink /\ ~panicked)
    /\ [][StepAdvances]_vars
    /\ [](ParseEnded => ast = parse(msg).doc)
    /\ ParseBegun ~> ParseEnded

\* the italics in the underline of "__*text*__": three calls of
\* markdown_element_collection, each on a shorter slice
C25_Witness ==
    /\ Len(frames) = 3
    /\ frames[1].kind = "Document" /\ Len(frames[1].slice) = 10
    /\ frames[2].kind = "Underline" /\ Len(frames[2].slice) = 6
    /\ frames[3].kind = "ItalicsStar" /\ frames[3].slice = <<"t", "e", "x", "t">>
    /\ frames[3].rest = <<>>
ParsedThenGenerated == ops = <<"receive", "parse", "generate">>

\* C26: the universal round trip.  For every message, also one with
\* unmatched or empty runs of delimiters, overlapping emphasis, a line that
\* starts with "> ", a backslash, a code fence with or without a language:
\* the default rendering of parse(s) is s.
C26_UniversalRoundTrip == ParsedThenGenerated => msg = prev_msg

\* a fence with a language, rendered again as it was
C26_Witness ==
    /\ ParsedThenGenerated
    /\ prev_msg = <<BT, BT, BT, "j", "s", NL, "f", "o", "o", NL, BT, BT, BT>>
    /\ ast = <<MultiLineCode_new(<<NL, "f", "o", "o", NL>>, <<<<"j", "s">>>>)>>
    /\ msg = prev_msg
\* the collections of a tree: the tree itself and the children of every
\* styled element in it
CollectionsOf(c) ==
    {c} \cup {e.children : e \in {x \in ElementsOf(c) : "children" \in DOMAIN x}}

\* C27: in every collection of every tree that parse gives, no Plain has
\* empty content and no two Plain elements are adjacent: a Plain is followed
\* by an element that is not a Plain, or by the end of its collection.
C27_PlainRunsAreMaximal ==
    JustParsed =>
        \A c \in CollectionsOf(ast) :
            /\ NoAdjacentPlain(c)
            /\ \A k \in 1..Len(c) : c[k].kind = "Plain" => c[k].content # <<>>

\* plain text on both sides of a bold, and plain text alone inside it
C27_Witness ==
    /\ ReceivedThenParsed
    /\ msg = <<"a", "*", "*", "b", "*", "*", "c">>
    /\ ast = <<Plain_new(<<"a">>), Styled_new("Bold", <<Plain_new(<<"b">>)>>),
               Plain_new(<<"c">>)>>
\* d occurs in s
Contains(s, d) == \E k \in 0..Len(s) : StartsWith(Suffix(s, k), d)

\* the number of styled elements on the longest path from the root of a
\* collection to a leaf
RECURSIVE Depth(_)
Depth(c) ==
    LET of(e) == IF e.kind \in StyledKinds THEN 1 + Depth(e.children) ELSE 0
        ds == {of(c[k]) : k \in 1..Len(c)}
    IN  IF c = <<>> THEN 0 ELSE CHOOSE d \in ds : \A x \in ds : x <= d

MaxStyledDepth == Cardinality(StyledKinds)

\* C28: the nesting of a parsed tree is bounded.  The rendered content of a
\* styled element never contains the delimiter of that element, so no styled
\* kind occurs twice on a path from the root to a leaf, an ItalicsStar holds
\* no Bold and an ItalicsUnderscore no Underline; a tree has at most six
\* styled levels, one per kind.
C28_BoundedNesting ==
    JustParsed =>
        /\ \A e \in ElementsOf(ast) :
               e.kind \in StyledKinds =>
                   /\ ~Contains(Render(e.children), Delimiter(e.kind))
                   /\ \A x \in ElementsOf(e.children) :
                          /\ x.kind # e.kind
                          /\ e.kind = "ItalicsStar" => x.kind # "Bold"
                          /\ e.kind = "ItalicsUnderscore" => x.kind # "Underline"
        /\ Depth(ast) <= MaxStyledDepth

\* the six styles, one in the other, around one letter
C28_Witness ==
    /\ ReceivedThenParsed
    /\ Len(msg) = 21
    /\ Len(ast) = 1
    /\ ast[1].kind = "Bold"
    /\ Depth(ast) = MaxStyledDepth
    /\ Plain_new(<<"a">>) \in ElementsOf(ast)
\* the place in the alternation alt of the first styled matcher, from place
\* k on, whose delimited part succeeds on i, 0 when there is none
RECURSIVE FirstStyledIn(_, _, _)
FirstStyledIn(alt_, i, k) ==
    IF k > Len(alt_) THEN 0
    ELSE IF DelimitedOk(i, StyleOf(alt_[k][1]).d) THEN k
    ELSE FirstStyledIn(alt_, i, k + 1)

\* the collection markdown_element_collection gives for i when
\* markdown_element_not_plain lists its matchers in the order alt
RECURSIVE ParseWith(_, _)
ParseWith(alt_, i) ==
    IF i = <<>> THEN <<>>
    ELSE IF CodeOk(i) THEN <<CodeAt(i).val>> \o ParseWith(alt_, CodeAt(i).rest)
    ELSE IF FirstStyledIn(alt_, i, 3) # 0
    THEN LET style == StyleOf(alt_[FirstStyledIn(alt_, i, 3)][1])
         IN  <<Styled_new(style.kind, ParseWith(alt_, Span(i, style.d)))>>
                 \o ParseWith(alt_, After(i, style.d))
    ELSE <<PlainAt(i).val>> \o ParseWith(alt_, PlainAt(i).rest)

\* C29: the order of the emphasis matchers in the alternation cannot be
\* observed.  The order of the code (italics_star, italics_underscore, bold,
\* underline) and the order bold, underline, italics_star, italics_underscore
\* give the same tree for every message, the tree parse returns: wherever in
\* the message, at most one of italics_star and bold succeeds, and at most one
\* of italics_underscore and underline.
C29_EmphasisOrderNotObservable ==
    ReceivedThenParsed =>
        /\ ParseWith(markdown_element_not_plain_alt, msg) = ast
        /\ ParseWith(markdown_element_not_plain_alt_DoubleFirst, msg) = ast
        /\ \A k \in 0..Len(msg) :
               /\ ~(italics_star(Suffix(msg, k)).ok /\ bold(Suffix(msg, k)).ok)
               /\ ~(italics_underscore(Suffix(msg, k)).ok
                      /\ underline(Suffix(msg, k)).ok)

\* "**text**": italics_star fails on the empty span between the first two
\* stars, bold succeeds, in either order
C29_Witness ==
    /\ ReceivedThenParsed
    /\ msg = <<"*", "*", "t", "e", "x", "t", "*", "*">>
    /\ ~italics_star(msg).ok
    /\ bold(msg).ok
    /\ ast = <<Styled_new("Bold", <<Plain_new(<<"t", "e", "x", "t">>)>>)>>
    /\ ParseWith(markdown_element_not_plain_alt_DoubleFirst, msg) = ast
\* C30: text without delimiters is one leaf.  For every non-empty message
\* that holds none of the characters * _ ~ | and no backtick, parse returns a
\* document of exactly one Plain that holds the whole message.
C30_DelimiterFreeIsOnePlain ==
    (ReceivedThenParsed /\ msg # <<>> /\ ~HasCharIn(msg, DelimiterChars)) =>
        ast = <<Plain_new(msg)>>

\* two lines of text, one Plain
C30_Witness ==
    /\ ReceivedThenParsed
    /\ msg = <<"a", NL, "a">>
    /\ ~HasCharIn(msg, DelimiterChars)
    /\ ast = <<Plain_new(<<"a", NL, "a">>)>>
=============================================================================
